---------------------------- MODULE Spec2Model ----------------------------
(***************************************************************************)
(* A model of the chess core of chess-genetic-ai: the board, the position  *)
(* State with its make_move, its pseudo-legal and legal move generators    *)
(* and the attack test they rest on.                                       *)
(*                                                                         *)
(* A Position is the pair <<x, y>> of the source's Position(x, y): x is    *)
(* the row index into the board array (the rank, 0 = rank 1) and y the     *)
(* column index (the file, 0 = file a).  Coordinates are plain integers:   *)
(* the source's i8 never leaves -2..9 for positions derived from a board   *)
(* square, so no wrap-around can happen.                                   *)
(***************************************************************************)
EXTENDS Integers, Sequences, FiniteSets, TLC

-----------------------------------------------------------------------------
(* piece.rs *)

White == "White"
Black == "Black"
Color == {White, Black}

Pawn == "Pawn"
Rook == "Rook"
Knight == "Knight"
Bishop == "Bishop"
Queen == "Queen"
King == "King"
PieceType == {Pawn, Rook, Knight, Bishop, Queen, King}

\* Option::None, for Option<Piece> and Option<Position> alike.
None == <<>>

Piece(c, k) == <<c, k>>
color(p) == p[1]
kind(p) == p[2]

opposite(c) == IF c = White THEN Black ELSE White

-----------------------------------------------------------------------------
(* board.rs *)

Position(x, y) == <<x, y>>

is_valid(pos) == pos[1] \in 0..7 /\ pos[2] \in 0..7

\* BoardNew with the white king and queen on each other's squares.
BoardNew_swapped ==
  << << Piece(White, Rook), Piece(White, Knight), Piece(White, Bishop), Piece(White, King),
        Piece(White, Queen), Piece(White, Bishop), Piece(White, Knight), Piece(White, Rook) >>,
     [y \in 1..8 |-> Piece(White, Pawn)],
     [y \in 1..8 |-> None],
     [y \in 1..8 |-> None],
     [y \in 1..8 |-> None],
     [y \in 1..8 |-> None],
     [y \in 1..8 |-> Piece(Black, Pawn)],
     << Piece(Black, Rook), Piece(Black, Knight), Piece(Black, Bishop), Piece(Black, Queen),
        Piece(Black, King), Piece(Black, Bishop), Piece(Black, Knight), Piece(Black, Rook) >> >>

BoardNew ==
  << << Piece(White, Rook), Piece(White, Knight), Piece(White, Bishop), Piece(White, Queen),
        Piece(White, King), Piece(White, Bishop), Piece(White, Knight), Piece(White, Rook) >>,
     [y \in 1..8 |-> Piece(White, Pawn)],
     [y \in 1..8 |-> None],
     [y \in 1..8 |-> None],
     [y \in 1..8 |-> None],
     [y \in 1..8 |-> None],
     [y \in 1..8 |-> Piece(Black, Pawn)],
     << Piece(Black, Rook), Piece(Black, Knight), Piece(Black, Bishop), Piece(Black, Queen),
        Piece(Black, King), Piece(Black, Bishop), Piece(Black, Knight), Piece(Black, Rook) >> >>

\* An index outside the array (a negative i8 cast to usize included) reads None.
get_piece(b, pos) == IF is_valid(pos) THEN b[pos[1] + 1][pos[2] + 1] ELSE None

\* A write outside the array is dropped.
set_piece(b, pos, piece) ==
  IF is_valid(pos) THEN [b EXCEPT ![pos[1] + 1][pos[2] + 1] = piece] ELSE b

is_position_empty(b, pos) == get_piece(b, pos) = None

is_position_piece(b, pos, piece) == get_piece(b, pos) = piece

is_position_color(b, pos, c) ==
  LET p == get_piece(b, pos) IN p # None /\ color(p) = c

is_position_empty_or_color(b, pos, c) ==
  is_position_empty(b, pos) \/ is_position_color(b, pos, c)

\* is_position_in_check_by_pawn looking for the pawns on the wrong side.
is_position_in_check_by_pawn_backward(b, pos, opp) ==
  LET rank == IF opp = White THEN pos[1] + 1 ELSE pos[1] - 1
      positions == << Position(rank, pos[2] - 1), Position(rank, pos[2] + 1) >>
  IN \E i \in 1..2 : get_piece(b, positions[i]) = Piece(opp, Pawn)

is_position_in_check_by_pawn(b, pos, opp) ==
  LET rank == IF opp = White THEN pos[1] - 1 ELSE pos[1] + 1
      positions == << Position(rank, pos[2] - 1), Position(rank, pos[2] + 1) >>
  IN \E i \in 1..2 : get_piece(b, positions[i]) = Piece(opp, Pawn)

\* One ray of the two sliding scans: for i in 1..8, stop at the edge, skip empty
\* squares, answer at the first piece met.
RECURSIVE ray_check(_, _, _, _, _, _)
ray_check(b, pos, d, i, kinds, opp) ==
  IF i >= 8 THEN FALSE
  ELSE LET q == Position(pos[1] + i * d[1], pos[2] + i * d[2]) IN
       IF ~is_valid(q) THEN FALSE
       ELSE LET p == get_piece(b, q) IN
            IF p = None THEN ray_check(b, pos, d, i + 1, kinds, opp)
            ELSE color(p) = opp /\ kind(p) \in kinds

RookDirs == << <<1, 0>>, <<-1, 0>>, <<0, 1>>, <<0, -1>> >>
BishopDirs == << <<1, 1>>, <<1, -1>>, <<-1, 1>>, <<-1, -1>> >>

is_position_in_check_by_rook_or_queen(b, pos, opp) ==
  \E k \in 1..4 : ray_check(b, pos, RookDirs[k], 1, {Rook, Queen}, opp)

is_position_in_check_by_bishop_or_queen(b, pos, opp) ==
  \E k \in 1..4 : ray_check(b, pos, BishopDirs[k], 1, {Bishop, Queen}, opp)

KnightOffsets ==
  << <<1, -2>>, <<2, -1>>, <<2, 1>>, <<1, 2>>, <<-1, 2>>, <<-2, 1>>, <<-2, -1>>, <<-1, -2>> >>

is_position_in_check_by_knight(b, pos, opp) ==
  \E k \in 1..8 :
    get_piece(b, Position(pos[1] + KnightOffsets[k][1], pos[2] + KnightOffsets[k][2]))
      = Piece(opp, Knight)

KingCheckOffsets ==
  << <<-1, -1>>, <<-1, 0>>, <<-1, 1>>, <<1, -1>>, <<1, 0>>, <<1, 1>>, <<0, -1>>, <<0, 1>> >>

is_position_in_check_by_king(b, pos, opp) ==
  \E k \in 1..8 :
    get_piece(b, Position(pos[1] + KingCheckOffsets[k][1], pos[2] + KingCheckOffsets[k][2]))
      = Piece(opp, King)

is_position_in_check(b, pos, opp) ==
  is_valid(pos)
    /\ (is_position_in_check_by_pawn(b, pos, opp)
          \/ is_position_in_check_by_rook_or_queen(b, pos, opp)
          \/ is_position_in_check_by_knight(b, pos, opp)
          \/ is_position_in_check_by_bishop_or_queen(b, pos, opp)
          \/ is_position_in_check_by_king(b, pos, opp))

-----------------------------------------------------------------------------
(* move.rs *)

CastlingRightsNew ==
  [white_king |-> TRUE, white_queen |-> TRUE, black_king |-> TRUE, black_queen |-> TRUE]

disable_king_side(r, c) ==
  IF c = White THEN [r EXCEPT !.white_king = FALSE] ELSE [r EXCEPT !.black_king = FALSE]

disable_queen_side(r, c) ==
  IF c = White THEN [r EXCEPT !.white_queen = FALSE] ELSE [r EXCEPT !.black_queen = FALSE]

\* disable_both_sides starting from fresh rights instead of the current ones.
disable_both_sides_fresh(r, c) ==
  IF c = White
    THEN [white_king |-> FALSE, white_queen |-> FALSE, black_king |-> TRUE, black_queen |-> TRUE]
    ELSE [white_king |-> TRUE, white_queen |-> TRUE, black_king |-> FALSE, black_queen |-> FALSE]

disable_both_sides(r, c) ==
  IF c = White THEN [r EXCEPT !.white_king = FALSE, !.white_queen = FALSE]
  ELSE [r EXCEPT !.black_king = FALSE, !.black_queen = FALSE]

StandardMove(f, t) == [from |-> f, to |-> t]

Standard(f, t) == [type |-> "Standard", from |-> f, to |-> t]
PawnDoubleAdvance(f, t) == [type |-> "PawnDoubleAdvance", from |-> f, to |-> t]
PawnEnPassant(f, t) == [type |-> "PawnEnPassant", from |-> f, to |-> t]
PawnPromotion(pawn, promotion) ==
  [type |-> "PawnPromotion", pawn |-> pawn, promotion |-> promotion]
Castling(side) == [type |-> "Castling", side |-> side]

CastlingMove == {"WhiteKing", "WhiteQueen", "BlackKing", "BlackQueen"}

\* all_pawn_promotions with the queen listed twice and no knight.
all_pawn_promotions_no_knight(pawn, c) ==
  << PawnPromotion(pawn, Piece(c, Rook)),
     PawnPromotion(pawn, Piece(c, Queen)),
     PawnPromotion(pawn, Piece(c, Bishop)),
     PawnPromotion(pawn, Piece(c, Queen)) >>

all_pawn_promotions(pawn, c) ==
  << PawnPromotion(pawn, Piece(c, Rook)),
     PawnPromotion(pawn, Piece(c, Knight)),
     PawnPromotion(pawn, Piece(c, Bishop)),
     PawnPromotion(pawn, Piece(c, Queen)) >>

-----------------------------------------------------------------------------
(* state.rs: State and make_move *)

StateNew ==
  [board |-> BoardNew,
   player |-> White,
   opponent |-> Black,
   en_passant |-> None,
   castling_rights |-> CastlingRightsNew,
   half_moves |-> 0,
   full_moves |-> 0,
   white_king_pos |-> Position(0, 4),
   black_king_pos |-> Position(7, 4)]

\* set_king_position writing the cached square of the side not to move.
set_king_position_opponent(S, pos) ==
  IF S.player = White THEN [S EXCEPT !.black_king_pos = pos]
  ELSE [S EXCEPT !.white_king_pos = pos]

set_king_position(S, pos) ==
  IF S.player = White THEN [S EXCEPT !.white_king_pos = pos]
  ELSE [S EXCEPT !.black_king_pos = pos]

make_normal_move(S, mv) ==
  LET p == get_piece(S.board, mv.from)
      S1 == IF p # None /\ kind(p) = King
              THEN set_king_position(
                     [S EXCEPT !.castling_rights = disable_both_sides(@, color(p))], mv.to)
            ELSE IF p # None /\ kind(p) = Rook /\ mv.from[2] = 0
              THEN [S EXCEPT !.castling_rights = disable_queen_side(@, color(p))]
            ELSE IF p # None /\ kind(p) = Rook /\ mv.from[2] = 7
              THEN [S EXCEPT !.castling_rights = disable_king_side(@, color(p))]
            ELSE S
      b1 == set_piece(S1.board, mv.to, get_piece(S1.board, mv.from))
  IN [S1 EXCEPT !.board = set_piece(b1, mv.from, None)]

\* make_double_advance_move recording the pawn's own square as the target.
make_double_advance_move_pawn_square(S, mv) ==
  LET b1 == set_piece(S.board, mv.to, get_piece(S.board, mv.from))
  IN [S EXCEPT !.en_passant = mv.to,
               !.board = set_piece(b1, mv.from, None)]

make_double_advance_move(S, mv) ==
  LET b1 == set_piece(S.board, mv.to, get_piece(S.board, mv.from))
  IN [S EXCEPT !.en_passant = Position((mv.from[1] + mv.to[1]) \div 2, mv.from[2]),
               !.board = set_piece(b1, mv.from, None)]

\* make_en_passant_move with the indices of the captured pawn's square swapped.
make_en_passant_move_swapped(S, mv) ==
  LET b1 == set_piece(S.board, mv.to, get_piece(S.board, mv.from))
      b2 == set_piece(b1, mv.from, None)
  IN [S EXCEPT !.board = set_piece(b2, Position(mv.to[1], mv.from[2]), None)]

make_en_passant_move(S, mv) ==
  LET b1 == set_piece(S.board, mv.to, get_piece(S.board, mv.from))
      b2 == set_piece(b1, mv.from, None)
  IN [S EXCEPT !.board = set_piece(b2, Position(mv.from[1], mv.to[2]), None)]

\* make_promotion_move writing the promotion piece after the pawn has moved.
make_promotion_move_write_after(S, mv) ==
  LET S1 == make_normal_move(S, mv.pawn)
  IN [S1 EXCEPT !.board = set_piece(@, mv.pawn.from, mv.promotion)]

\* make_promotion_move moving the pawn without replacing it.
make_promotion_move_pawn_stays(S, mv) == make_normal_move(S, mv.pawn)

make_promotion_move(S, mv) ==
  make_normal_move([S EXCEPT !.board = set_piece(@, mv.pawn.from, mv.promotion)], mv.pawn)

\* <<color, king_start, pass_thru, king_end, rook_start>>
castling_squares(side) ==
  CASE side = "WhiteKing" ->
         <<White, Position(0, 4), Position(0, 5), Position(0, 6), Position(0, 7)>>
    [] side = "WhiteQueen" ->
         <<White, Position(0, 4), Position(0, 3), Position(0, 2), Position(0, 0)>>
    [] side = "BlackKing" ->
         <<Black, Position(7, 4), Position(7, 5), Position(7, 6), Position(7, 7)>>
    [] side = "BlackQueen" ->
         <<Black, Position(7, 4), Position(7, 3), Position(7, 2), Position(7, 0)>>

\* make_castling_move leaving a king on the start square as well.
make_castling_move_king_stays(S, mv) ==
  LET q == castling_squares(mv.side)
      c == q[1]
      S1 == set_king_position(S, q[4])
      b1 == set_piece(S1.board, q[4], Piece(c, King))
      b3 == set_piece(b1, q[3], Piece(c, Rook))
  IN [S1 EXCEPT !.castling_rights = disable_both_sides(@, c),
                !.board = set_piece(b3, q[5], None)]

\* make_castling_move leaving the rook on its corner as well.
make_castling_move_rook_stays(S, mv) ==
  LET q == castling_squares(mv.side)
      c == q[1]
      S1 == set_king_position(S, q[4])
      b1 == set_piece(S1.board, q[4], Piece(c, King))
      b2 == set_piece(b1, q[2], None)
  IN [S1 EXCEPT !.castling_rights = disable_both_sides(@, c),
                !.board = set_piece(b2, q[3], Piece(c, Rook))]

\* make_castling_move clearing only the right of the side castled to.
make_castling_move_one_side(S, mv) ==
  LET q == castling_squares(mv.side)
      c == q[1]
      S1 == set_king_position(S, q[4])
      b1 == set_piece(S1.board, q[4], Piece(c, King))
      b2 == set_piece(b1, q[2], None)
      b3 == set_piece(b2, q[3], Piece(c, Rook))
  IN [S1 EXCEPT !.castling_rights =
                   IF mv.side \in {"WhiteKing", "BlackKing"}
                     THEN disable_king_side(@, c) ELSE disable_queen_side(@, c),
                !.board = set_piece(b3, q[5], None)]

make_castling_move(S, mv) ==
  LET q == castling_squares(mv.side)
      c == q[1]
      S1 == set_king_position(S, q[4])
      b1 == set_piece(S1.board, q[4], Piece(c, King))
      b2 == set_piece(b1, q[2], None)
      b3 == set_piece(b2, q[3], Piece(c, Rook))
  IN [S1 EXCEPT !.castling_rights = disable_both_sides(@, c),
                !.board = set_piece(b3, q[5], None)]

\* make_move without the swap of player and opponent.
make_move_no_swap(S, mv) ==
  LET S0 == [S EXCEPT !.en_passant = None]
      S1 == CASE mv.type = "Standard" -> make_normal_move(S0, mv)
              [] mv.type = "PawnDoubleAdvance" -> make_double_advance_move(S0, mv)
              [] mv.type = "PawnEnPassant" -> make_en_passant_move(S0, mv)
              [] mv.type = "PawnPromotion" -> make_promotion_move(S0, mv)
              [] mv.type = "Castling" -> make_castling_move(S0, mv)
  IN [S1 EXCEPT !.half_moves = S1.half_moves + 1,
                !.full_moves = (S1.half_moves + 1) \div 2]

\* make_move leaving the en-passant target of the move before in place.
make_move_stale_target(S, mv) ==
  LET S1 == CASE mv.type = "Standard" -> make_normal_move(S, mv)
              [] mv.type = "PawnDoubleAdvance" -> make_double_advance_move(S, mv)
              [] mv.type = "PawnEnPassant" -> make_en_passant_move(S, mv)
              [] mv.type = "PawnPromotion" -> make_promotion_move(S, mv)
              [] mv.type = "Castling" -> make_castling_move(S, mv)
  IN [S1 EXCEPT !.player = S1.opponent,
                !.opponent = S1.player,
                !.half_moves = S1.half_moves + 1,
                !.full_moves = (S1.half_moves + 1) \div 2]

\* make_move keeping a clock that a pawn move or a capture resets.
make_move_clock(S, mv) ==
  LET S0 == [S EXCEPT !.en_passant = None]
      resets == \/ mv.type \in {"PawnDoubleAdvance", "PawnEnPassant", "PawnPromotion"}
                \/ /\ mv.type = "Standard"
                   /\ \/ get_piece(S.board, mv.from) = Piece(S.player, Pawn)
                      \/ get_piece(S.board, mv.to) # None
      S1 == CASE mv.type = "Standard" -> make_normal_move(S0, mv)
              [] mv.type = "PawnDoubleAdvance" -> make_double_advance_move(S0, mv)
              [] mv.type = "PawnEnPassant" -> make_en_passant_move(S0, mv)
              [] mv.type = "PawnPromotion" -> make_promotion_move(S0, mv)
              [] mv.type = "Castling" -> make_castling_move(S0, mv)
  IN [S1 EXCEPT !.player = S1.opponent,
                !.opponent = S1.player,
                !.half_moves = IF resets THEN 0 ELSE S1.half_moves + 1,
                !.full_moves = (S1.half_moves + 1) \div 2]

make_move(S, mv) ==
  LET S0 == [S EXCEPT !.en_passant = None]
      S1 == CASE mv.type = "Standard" -> make_normal_move(S0, mv)
              [] mv.type = "PawnDoubleAdvance" -> make_double_advance_move(S0, mv)
              [] mv.type = "PawnEnPassant" -> make_en_passant_move(S0, mv)
              [] mv.type = "PawnPromotion" -> make_promotion_move(S0, mv)
              [] mv.type = "Castling" -> make_castling_move(S0, mv)
  IN [S1 EXCEPT !.player = S1.opponent,
                !.opponent = S1.player,
                !.half_moves = S1.half_moves + 1,
                !.full_moves = (S1.half_moves + 1) \div 2]

make_move_copy(S, mv) == make_move(S, mv)

-----------------------------------------------------------------------------
(* state.rs: castling validation and the move generators *)

\* validate_castling_move without the test of the square the king passes through.
validate_castling_move_no_pass_thru(S, side) ==
  LET q == castling_squares(side)
      c == q[1]
      right == CASE side = "WhiteKing" -> S.castling_rights.white_king
                 [] side = "WhiteQueen" -> S.castling_rights.white_queen
                 [] side = "BlackKing" -> S.castling_rights.black_king
                 [] side = "BlackQueen" -> S.castling_rights.black_queen
      knight_sq == Position(q[2][1], 1)
  IN /\ S.player = c
     /\ right
     /\ is_position_piece(S.board, q[2], Piece(c, King))
     /\ is_position_piece(S.board, q[5], Piece(c, Rook))
     /\ is_position_empty(S.board, q[3])
     /\ is_position_empty(S.board, q[4])
     /\ (side \in {"WhiteQueen", "BlackQueen"} => is_position_empty(S.board, knight_sq))
     /\ ~is_position_in_check(S.board, q[2], opposite(c))
     /\ ~is_position_in_check(S.board, q[4], opposite(c))

\* validate_castling_move refusing the queen-side castle when the b-file square
\* is attacked.
validate_castling_move_b_file(S, side) ==
  LET q == castling_squares(side)
      c == q[1]
      right == CASE side = "WhiteKing" -> S.castling_rights.white_king
                 [] side = "WhiteQueen" -> S.castling_rights.white_queen
                 [] side = "BlackKing" -> S.castling_rights.black_king
                 [] side = "BlackQueen" -> S.castling_rights.black_queen
      knight_sq == Position(q[2][1], 1)
  IN /\ S.player = c
     /\ right
     /\ is_position_piece(S.board, q[2], Piece(c, King))
     /\ is_position_piece(S.board, q[5], Piece(c, Rook))
     /\ is_position_empty(S.board, q[3])
     /\ is_position_empty(S.board, q[4])
     /\ (side \in {"WhiteQueen", "BlackQueen"} =>
           is_position_empty(S.board, knight_sq)
             /\ ~is_position_in_check(S.board, knight_sq, opposite(c)))
     /\ ~is_position_in_check(S.board, q[2], opposite(c))
     /\ ~is_position_in_check(S.board, q[3], opposite(c))
     /\ ~is_position_in_check(S.board, q[4], opposite(c))

validate_castling_move(S, side) ==
  LET q == castling_squares(side)
      c == q[1]
      right == CASE side = "WhiteKing" -> S.castling_rights.white_king
                 [] side = "WhiteQueen" -> S.castling_rights.white_queen
                 [] side = "BlackKing" -> S.castling_rights.black_king
                 [] side = "BlackQueen" -> S.castling_rights.black_queen
      \* the queen-side castles also need the b-file square empty
      knight_sq == Position(q[2][1], 1)
  IN /\ S.player = c
     /\ right
     /\ is_position_piece(S.board, q[2], Piece(c, King))
     /\ is_position_piece(S.board, q[5], Piece(c, Rook))
     /\ is_position_empty(S.board, q[3])
     /\ is_position_empty(S.board, q[4])
     /\ (side \in {"WhiteQueen", "BlackQueen"} => is_position_empty(S.board, knight_sq))
     /\ ~is_position_in_check(S.board, q[2], opposite(c))
     /\ ~is_position_in_check(S.board, q[3], opposite(c))
     /\ ~is_position_in_check(S.board, q[4], opposite(c))

\* i8::abs_diff
abs_diff(a, b) == IF a < b THEN b - a ELSE a - b

validate_pawn_normal_move(S, mv) ==
  IF mv.from[1] = 0 \/ mv.from[1] = 7 THEN FALSE
  ELSE LET rank == IF S.player = White THEN mv.from[1] + 1 ELSE mv.from[1] - 1
           forward_one == Position(rank, mv.from[2])
           capture_left == Position(rank, mv.from[2] - 1)
           capture_right == Position(rank, mv.from[2] + 1)
       IN \/ (mv.to = forward_one /\ is_position_empty(S.board, mv.to))
          \/ ((mv.to = capture_left \/ mv.to = capture_right)
              /\ is_position_color(S.board, mv.to, S.opponent))

validate_rook_normal_move(S, mv) ==
  IF mv.from[1] # mv.to[1] /\ mv.from[2] # mv.to[2] THEN FALSE
  ELSE LET is_rank == mv.from[1] # mv.to[1]
           a == IF is_rank THEN mv.from[1] ELSE mv.from[2]
           b == IF is_rank THEN mv.to[1] ELSE mv.to[2]
           start == IF a < b THEN a ELSE b
           end == IF a < b THEN b ELSE a
       IN /\ \A i \in (start + 1)..(end - 1) :
               is_position_empty(S.board, IF is_rank THEN Position(i, mv.from[2])
                                          ELSE Position(mv.from[1], i))
          /\ is_position_empty_or_color(S.board, mv.to, S.opponent)

validate_knight_normal_move(S, mv) ==
  LET rank_diff == abs_diff(mv.from[1], mv.to[1])
      file_diff == abs_diff(mv.from[2], mv.to[2])
  IN /\ (file_diff = 1 /\ rank_diff = 2) \/ (file_diff = 2 /\ rank_diff = 1)
     /\ is_position_empty_or_color(S.board, mv.to, S.opponent)

\* The while loop of validate_bishop_normal_move, from (rank, file) on.
RECURSIVE bishop_path_empty(_, _, _, _, _, _)
bishop_path_empty(S, mv, rank, file, rank_step, file_step) ==
  IF rank # mv.to[1] /\ file # mv.to[2]
    THEN IF ~is_position_empty(S.board, Position(rank, file)) THEN FALSE
         ELSE bishop_path_empty(S, mv, rank + rank_step, file + file_step,
                                rank_step, file_step)
  ELSE TRUE

validate_bishop_normal_move(S, mv) ==
  LET diff_rank == abs_diff(mv.from[1], mv.to[1])
      diff_file == abs_diff(mv.from[2], mv.to[2])
      rank_step == IF mv.from[1] < mv.to[1] THEN 1 ELSE -1
      file_step == IF mv.from[2] < mv.to[2] THEN 1 ELSE -1
  IN IF diff_rank # diff_file THEN FALSE
     ELSE /\ bishop_path_empty(S, mv, mv.from[1] + rank_step, mv.from[2] + file_step,
                               rank_step, file_step)
          /\ is_position_empty_or_color(S.board, mv.to, S.opponent)

validate_queen_normal_move(S, mv) ==
  validate_rook_normal_move(S, mv) \/ validate_bishop_normal_move(S, mv)

validate_king_normal_move(S, mv) ==
  /\ abs_diff(mv.from[1], mv.to[1]) <= 1
  /\ abs_diff(mv.from[2], mv.to[2]) <= 1
  /\ is_position_empty_or_color(S.board, mv.to, S.opponent)

validate_normal_move(S, mv) ==
  LET piece == get_piece(S.board, mv.from)
  IN IF piece = None \/ color(piece) # S.player THEN FALSE
     ELSE IF is_position_color(S.board, mv.to, S.player) THEN FALSE
     ELSE CASE kind(piece) = Pawn -> validate_pawn_normal_move(S, mv)
            [] kind(piece) = Rook -> validate_rook_normal_move(S, mv)
            [] kind(piece) = Knight -> validate_knight_normal_move(S, mv)
            [] kind(piece) = Bishop -> validate_bishop_normal_move(S, mv)
            [] kind(piece) = Queen -> validate_queen_normal_move(S, mv)
            [] kind(piece) = King -> validate_king_normal_move(S, mv)

validate_double_advance_move(S, mv) ==
  LET start_rank == IF S.player = White THEN 1 ELSE 6
      pawn == Piece(S.player, Pawn)
      forward_one == Position(mv.from[1] + (IF S.player = White THEN 1 ELSE -1), mv.from[2])
      forward_two == Position(mv.from[1] + (IF S.player = White THEN 2 ELSE -2), mv.from[2])
  IN /\ mv.from[1] = start_rank
     /\ mv.to = forward_two
     /\ is_position_piece(S.board, mv.from, pawn)
     /\ is_position_empty(S.board, forward_one)
     /\ is_position_empty(S.board, mv.to)

\* validate_en_passant_move looking for the capturing pawn on the far side of
\* the target.
validate_en_passant_move_far_side(S, mv) ==
  IF \/ ~is_position_empty(S.board, mv.to)
     \/ ~is_position_piece(S.board, Position(mv.from[1], mv.to[2]), Piece(S.opponent, Pawn))
    THEN FALSE
  ELSE IF get_piece(S.board, mv.from) # Piece(S.player, Pawn) THEN FALSE
  ELSE IF S.en_passant = None \/ mv.to # S.en_passant THEN FALSE
  ELSE IF mv.from[2] # S.en_passant[2] + 1 /\ mv.from[2] # S.en_passant[2] - 1 THEN FALSE
  ELSE IF S.player = White THEN mv.from[1] = S.en_passant[1] + 1
  ELSE mv.from[1] = S.en_passant[1] - 1

validate_en_passant_move(S, mv) ==
  IF \/ ~is_position_empty(S.board, mv.to)
     \/ ~is_position_piece(S.board, Position(mv.from[1], mv.to[2]), Piece(S.opponent, Pawn))
    THEN FALSE
  ELSE IF get_piece(S.board, mv.from) # Piece(S.player, Pawn) THEN FALSE
  ELSE IF S.en_passant = None \/ mv.to # S.en_passant THEN FALSE
  ELSE IF mv.from[2] # S.en_passant[2] + 1 /\ mv.from[2] # S.en_passant[2] - 1 THEN FALSE
  ELSE IF S.player = White THEN mv.from[1] = S.en_passant[1] - 1
  ELSE mv.from[1] = S.en_passant[1] + 1

validate_promotion_move(S, mv) ==
  /\ is_valid(mv.pawn.from)
  /\ is_valid(mv.pawn.to)
  /\ mv.pawn.from # mv.pawn.to
  /\ color(mv.promotion) = S.player
  /\ kind(mv.promotion) \in {Rook, Knight, Bishop, Queen}
  /\ is_position_piece(S.board, mv.pawn.from, Piece(S.player, Pawn))
  /\ validate_pawn_normal_move(S, mv.pawn)

\* The match of validate_move.
is_pseudo_legal(S, mv) ==
  CASE mv.type = "Standard" -> validate_normal_move(S, mv)
    [] mv.type = "PawnDoubleAdvance" -> validate_double_advance_move(S, mv)
    [] mv.type = "PawnEnPassant" -> validate_en_passant_move(S, mv)
    [] mv.type = "PawnPromotion" -> validate_promotion_move(S, mv)
    [] mv.type = "Castling" -> validate_castling_move(S, mv.side)

validate_move(S, mv) ==
  IF ~is_pseudo_legal(S, mv) THEN FALSE
  ELSE LET new_state == make_move_copy(S, mv)
           king_pos == IF S.player = White THEN new_state.white_king_pos
                       ELSE new_state.black_king_pos
       IN ~is_position_in_check(new_state.board, king_pos, new_state.player)

\* gen_pawn_captures taking any pending en-passant target for its own.
gen_pawn_captures_any_target(S, from, target, promotion_rank) ==
  IF is_position_color(S.board, target, S.opponent)
    THEN IF target[1] = promotion_rank
           THEN all_pawn_promotions(StandardMove(from, target), S.player)
           ELSE << Standard(from, target) >>
  ELSE IF S.en_passant # None
    THEN << PawnEnPassant(from, target) >>
  ELSE << >>

\* gen_pawn_captures testing the target for the mover's own colour.
gen_pawn_captures_own(S, from, target, promotion_rank) ==
  IF is_position_color(S.board, target, S.player)
    THEN IF target[1] = promotion_rank
           THEN all_pawn_promotions(StandardMove(from, target), S.player)
           ELSE << Standard(from, target) >>
  ELSE IF S.en_passant # None /\ S.en_passant = target
    THEN << PawnEnPassant(from, target) >>
  ELSE << >>

gen_pawn_captures(S, from, target, promotion_rank) ==
  IF is_position_color(S.board, target, S.opponent)
    THEN IF target[1] = promotion_rank
           THEN all_pawn_promotions(StandardMove(from, target), S.player)
           ELSE << Standard(from, target) >>
  ELSE IF S.en_passant # None /\ S.en_passant = target
    THEN << PawnEnPassant(from, target) >>
  ELSE << >>

\* gen_pawn_moves without the test of the square two steps ahead.
gen_pawn_moves_jump(S, pos) ==
  LET x == pos[1]
      y == pos[2]
      w == S.player = White
      starting_rank == IF w THEN 1 ELSE 6
      promotion_rank == IF w THEN 7 ELSE 0
      forward_one == IF w THEN Position(x + 1, y) ELSE Position(x - 1, y)
      forward_two == IF w THEN Position(x + 2, y) ELSE Position(x - 2, y)
      capture_left == IF w THEN Position(x + 1, y - 1) ELSE Position(x - 1, y - 1)
      capture_right == IF w THEN Position(x + 1, y + 1) ELSE Position(x - 1, y + 1)
      pushes ==
        IF is_position_empty(S.board, forward_one)
          THEN IF forward_one[1] = promotion_rank
                 THEN all_pawn_promotions(StandardMove(pos, forward_one), S.player)
                 ELSE << Standard(pos, forward_one) >>
                        \o (IF x = starting_rank
                              THEN << PawnDoubleAdvance(pos, forward_two) >>
                              ELSE << >>)
          ELSE << >>
  IN pushes \o gen_pawn_captures(S, pos, capture_left, promotion_rank)
            \o gen_pawn_captures(S, pos, capture_right, promotion_rank)

gen_pawn_moves(S, pos) ==
  LET x == pos[1]
      y == pos[2]
      w == S.player = White
      starting_rank == IF w THEN 1 ELSE 6
      promotion_rank == IF w THEN 7 ELSE 0
      forward_one == IF w THEN Position(x + 1, y) ELSE Position(x - 1, y)
      forward_two == IF w THEN Position(x + 2, y) ELSE Position(x - 2, y)
      capture_left == IF w THEN Position(x + 1, y - 1) ELSE Position(x - 1, y - 1)
      capture_right == IF w THEN Position(x + 1, y + 1) ELSE Position(x - 1, y + 1)
      pushes ==
        IF is_position_empty(S.board, forward_one)
          THEN IF forward_one[1] = promotion_rank
                 THEN all_pawn_promotions(StandardMove(pos, forward_one), S.player)
                 ELSE << Standard(pos, forward_one) >>
                        \o (IF x = starting_rank /\ is_position_empty(S.board, forward_two)
                              THEN << PawnDoubleAdvance(pos, forward_two) >>
                              ELSE << >>)
          ELSE << >>
  IN pushes \o gen_pawn_captures(S, pos, capture_left, promotion_rank)
            \o gen_pawn_captures(S, pos, capture_right, promotion_rank)

\* gen_ray without the break after a capture.
RECURSIVE gen_ray_through(_, _, _, _)
gen_ray_through(S, pos, d, i) ==
  IF i >= 8 THEN << >>
  ELSE LET q == Position(pos[1] + i * d[1], pos[2] + i * d[2]) IN
       IF ~is_valid(q) THEN << >>
       ELSE LET p == get_piece(S.board, q) IN
            IF p = None \/ color(p) = S.opponent
              THEN << Standard(pos, q) >> \o gen_ray_through(S, pos, d, i + 1)
            ELSE << >>

\* One ray of gen_rook_moves / gen_bishop_moves: for i in 1..8.
RECURSIVE gen_ray(_, _, _, _)
gen_ray(S, pos, d, i) ==
  IF i >= 8 THEN << >>
  ELSE LET q == Position(pos[1] + i * d[1], pos[2] + i * d[2]) IN
       IF ~is_valid(q) THEN << >>
       ELSE LET p == get_piece(S.board, q) IN
            IF p = None THEN << Standard(pos, q) >> \o gen_ray(S, pos, d, i + 1)
            ELSE IF color(p) = S.opponent THEN << Standard(pos, q) >>
            ELSE << >>

gen_rook_moves(S, pos) ==
  gen_ray(S, pos, RookDirs[1], 1) \o gen_ray(S, pos, RookDirs[2], 1)
    \o gen_ray(S, pos, RookDirs[3], 1) \o gen_ray(S, pos, RookDirs[4], 1)

gen_bishop_moves(S, pos) ==
  gen_ray(S, pos, BishopDirs[1], 1) \o gen_ray(S, pos, BishopDirs[2], 1)
    \o gen_ray(S, pos, BishopDirs[3], 1) \o gen_ray(S, pos, BishopDirs[4], 1)

gen_queen_moves(S, pos) == gen_rook_moves(S, pos) \o gen_bishop_moves(S, pos)

\* gen_steps without the test that the square is on the board.
RECURSIVE gen_steps_off_board(_, _, _, _)
gen_steps_off_board(S, pos, offsets, k) ==
  IF k > Len(offsets) THEN << >>
  ELSE LET q == Position(pos[1] + offsets[k][1], pos[2] + offsets[k][2]) IN
       (IF is_position_color(S.board, q, S.player)
          THEN << >> ELSE << Standard(pos, q) >>)
         \o gen_steps_off_board(S, pos, offsets, k + 1)

\* The loop shared by gen_knight_moves and gen_king_moves: offsets k..8 in order.
RECURSIVE gen_steps(_, _, _, _)
gen_steps(S, pos, offsets, k) ==
  IF k > Len(offsets) THEN << >>
  ELSE LET q == Position(pos[1] + offsets[k][1], pos[2] + offsets[k][2]) IN
       (IF ~is_valid(q) \/ is_position_color(S.board, q, S.player)
          THEN << >> ELSE << Standard(pos, q) >>)
         \o gen_steps(S, pos, offsets, k + 1)

gen_knight_moves(S, pos) == gen_steps(S, pos, KnightOffsets, 1)

KingOffsets ==
  << <<1, -1>>, <<1, 0>>, <<1, 1>>, <<0, -1>>, <<0, 1>>, <<-1, -1>>, <<-1, 0>>, <<-1, 1>> >>

gen_castling(S, side) ==
  IF validate_castling_move(S, side) THEN << Castling(side) >> ELSE << >>

gen_king_moves(S, pos) ==
  gen_steps(S, pos, KingOffsets, 1)
    \o gen_castling(S, "WhiteKing") \o gen_castling(S, "WhiteQueen")
    \o gen_castling(S, "BlackKing") \o gen_castling(S, "BlackQueen")

\* Board::for_each: every square of the array with its content, row by row.
for_each == [i \in 1..64 |-> Position((i - 1) \div 8, (i - 1) % 8)]

\* The closure of gen_potential_legal_moves: the moves of the piece on one square.
gen_piece_moves(S, pos) ==
  LET p == get_piece(S.board, pos) IN
  IF p = None \/ color(p) # S.player THEN << >>
  ELSE CASE kind(p) = Pawn -> gen_pawn_moves(S, pos)
         [] kind(p) = Rook -> gen_rook_moves(S, pos)
         [] kind(p) = Knight -> gen_knight_moves(S, pos)
         [] kind(p) = Bishop -> gen_bishop_moves(S, pos)
         [] kind(p) = Queen -> gen_queen_moves(S, pos)
         [] kind(p) = King -> gen_king_moves(S, pos)

\* moves.extend(..) over the squares for_each[lo..hi], in order (the range is
\* halved only to keep the evaluation shallow).
RECURSIVE extend_moves(_, _, _)
extend_moves(S, lo, hi) ==
  IF lo > hi THEN << >>
  ELSE IF lo = hi THEN gen_piece_moves(S, for_each[lo])
  ELSE extend_moves(S, lo, (lo + hi) \div 2) \o extend_moves(S, (lo + hi) \div 2 + 1, hi)

gen_potential_legal_moves(S) == extend_moves(S, 1, Len(for_each))

\* push_if_safe without the check test.
push_if_safe_always(S, mv, new_state) == << <<mv, new_state>> >>

\* The body of the for_each of gen_legal_moves: the pair is pushed unless the
\* mover's king, at its cached square, is in check in the new state.
push_if_safe(S, mv, new_state) ==
  LET king_pos == IF S.player = White THEN new_state.white_king_pos
                  ELSE new_state.black_king_pos
  IN IF ~is_position_in_check(new_state.board, king_pos, new_state.player)
       THEN << <<mv, new_state>> >>
       ELSE << >>

\* The for_each of gen_legal_moves over moves[lo..hi], in order.
RECURSIVE filter_legal(_, _, _, _)
filter_legal(S, moves, lo, hi) ==
  IF lo > hi THEN << >>
  ELSE IF lo = hi THEN push_if_safe(S, moves[lo], make_move_copy(S, moves[lo]))
  ELSE filter_legal(S, moves, lo, (lo + hi) \div 2)
         \o filter_legal(S, moves, (lo + hi) \div 2 + 1, hi)

\* The for_each of gen_legal_moves starting one element late.
filter_all_skip_first(S, moves) == filter_legal(S, moves, 2, Len(moves))

filter_all(S, moves) == filter_legal(S, moves, 1, Len(moves))

gen_legal_moves(S) == filter_all(S, gen_potential_legal_moves(S))

\* The number of sequences of d successive legal moves from S.
RECURSIVE perft(_, _)
RECURSIVE perft_sum(_, _, _, _)
perft_sum(L, lo, hi, d) ==
  IF lo > hi THEN 0
  ELSE IF lo = hi THEN perft(L[lo][2], d)
  ELSE perft_sum(L, lo, (lo + hi) \div 2, d) + perft_sum(L, (lo + hi) \div 2 + 1, hi, d)

perft_all(L, d) == perft_sum(L, 1, Len(L), d)

perft(S, d) == IF d = 0 THEN 1 ELSE perft_all(gen_legal_moves(S), d - 1)

-----------------------------------------------------------------------------
(* board.rs: apply_move, used by Game.  Game's Move::Normal, DoubleAdvance, *)
(* EnPassant, Promotion and Castle are the move kinds Standard,             *)
(* PawnDoubleAdvance, PawnEnPassant, PawnPromotion and Castling above.      *)

apply_normal_move(b, mv) ==
  set_piece(set_piece(b, mv.to, get_piece(b, mv.from)), mv.from, None)

apply_double_advance_move(b, mv) ==
  set_piece(set_piece(b, mv.to, get_piece(b, mv.from)), mv.from, None)

apply_en_passant_move(b, mv) ==
  set_piece(set_piece(set_piece(b, mv.to, get_piece(b, mv.from)), mv.from, None),
            Position(mv.from[1], mv.to[2]), None)

apply_promotion_move(b, mv) ==
  apply_normal_move(set_piece(b, mv.pawn.from, mv.promotion), mv.pawn)

apply_castle_move(b, mv) ==
  CASE mv.side = "WhiteKing" ->
         set_piece(set_piece(set_piece(set_piece(b,
           Position(0, 6), Piece(White, King)), Position(0, 4), None),
           Position(0, 5), Piece(White, Rook)), Position(0, 7), None)
    [] mv.side = "WhiteQueen" ->
         set_piece(set_piece(set_piece(set_piece(b,
           Position(0, 2), Piece(White, King)), Position(0, 4), None),
           Position(0, 3), Piece(White, Rook)), Position(0, 0), None)
    [] mv.side = "BlackKing" ->
         set_piece(set_piece(set_piece(set_piece(b,
           Position(7, 6), Piece(Black, King)), Position(7, 4), None),
           Position(7, 5), Piece(Black, Rook)), Position(7, 7), None)
    [] mv.side = "BlackQueen" ->
         set_piece(set_piece(set_piece(set_piece(b,
           Position(7, 2), Piece(Black, King)), Position(7, 4), None),
           Position(7, 3), Piece(Black, Rook)), Position(7, 0), None)

apply_move(b, mv) ==
  CASE mv.type = "Standard" -> apply_normal_move(b, mv)
    [] mv.type = "PawnDoubleAdvance" -> apply_double_advance_move(b, mv)
    [] mv.type = "PawnEnPassant" -> apply_en_passant_move(b, mv)
    [] mv.type = "PawnPromotion" -> apply_promotion_move(b, mv)
    [] mv.type = "Castling" -> apply_castle_move(b, mv)

-----------------------------------------------------------------------------
(* game.rs: Game and its make_move *)

GameNew ==
  [board |-> BoardNew,
   turn |-> White,
   en_passant |-> None,
   castling_rights |-> CastlingRightsNew,
   half_moves |-> 0,
   full_moves |-> 0]

update_en_passant(G, mv) ==
  [G EXCEPT !.en_passant =
     IF mv.type = "PawnDoubleAdvance"
       THEN Position((mv.from[1] + mv.to[1]) \div 2, mv.from[2])
       ELSE None]

\* The rights to write after a normal move, given the piece now read at its from square.
rights_after_normal(r, p, from) ==
  IF p # None /\ kind(p) = King THEN disable_both_sides(r, color(p))
  ELSE IF p # None /\ kind(p) = Rook /\ from[2] = 0 THEN disable_queen_side(r, color(p))
  ELSE IF p # None /\ kind(p) = Rook /\ from[2] = 7 THEN disable_king_side(r, color(p))
  ELSE r

\* Called after board.apply_move: it reads the board the move has already changed.
update_castling_rights(G, mv) ==
  IF mv.type = "Standard"
    THEN [G EXCEPT !.castling_rights =
            rights_after_normal(@, get_piece(G.board, mv.from), mv.from)]
    ELSE G

\* game_advance counting the full move on White's move.
game_advance_white(G) ==
  [G EXCEPT !.full_moves = IF G.turn = White THEN @ + 1 ELSE @,
            !.half_moves = @ + 1,
            !.turn = opposite(G.turn)]

\* The counters and the turn, as the first three statements of Game::make_move set them.
game_advance(G) ==
  [G EXCEPT !.full_moves = IF G.turn = Black THEN @ + 1 ELSE @,
            !.half_moves = @ + 1,
            !.turn = opposite(G.turn)]

game_apply(G, mv) == [G EXCEPT !.board = apply_move(@, mv)]

game_make_move(G, mv) ==
  update_castling_rights(update_en_passant(game_apply(game_advance(G), mv), mv), mv)

-----------------------------------------------------------------------------
(* game.rs: Game::validate_move *)

game_validate_pawn_normal_move(G, mv) ==
  IF mv.from[1] = 0 \/ mv.from[1] = 7 THEN FALSE
  ELSE LET rank == IF G.turn = White THEN mv.from[1] + 1 ELSE mv.from[1] - 1
           forward_one == Position(rank, mv.from[2])
           capture_left == Position(rank, mv.from[2] - 1)
           capture_right == Position(rank, mv.from[2] + 1)
       IN \/ (mv.to = forward_one /\ is_position_empty(G.board, mv.to))
          \/ ((mv.to = capture_left \/ mv.to = capture_right)
              /\ is_position_color(G.board, mv.to, opposite(G.turn)))

game_validate_rook_normal_move(G, mv) ==
  IF mv.from[1] # mv.to[1] /\ mv.from[2] # mv.to[2] THEN FALSE
  ELSE LET is_rank == mv.from[1] # mv.to[1]
           a == IF is_rank THEN mv.from[1] ELSE mv.from[2]
           b == IF is_rank THEN mv.to[1] ELSE mv.to[2]
           start == IF a < b THEN a ELSE b
           end == IF a < b THEN b ELSE a
       IN /\ \A i \in (start + 1)..(end - 1) :
               is_position_empty(G.board, IF is_rank THEN Position(i, mv.from[2])
                                          ELSE Position(mv.from[1], i))
          /\ is_position_empty_or_color(G.board, mv.to, opposite(G.turn))

game_validate_knight_normal_move(G, mv) ==
  LET rank_diff == abs_diff(mv.from[1], mv.to[1])
      file_diff == abs_diff(mv.from[2], mv.to[2])
  IN /\ (file_diff = 1 /\ rank_diff = 2) \/ (file_diff = 2 /\ rank_diff = 1)
     /\ is_position_empty_or_color(G.board, mv.to, opposite(G.turn))

\* The while loop of Game::validate_bishop_normal_move, from (rank, file) on.
RECURSIVE game_bishop_path_empty(_, _, _, _, _, _)
game_bishop_path_empty(G, mv, rank, file, rank_step, file_step) ==
  IF rank # mv.to[1] /\ file # mv.to[2]
    THEN IF ~is_position_empty(G.board, Position(rank, file)) THEN FALSE
         ELSE game_bishop_path_empty(G, mv, rank + rank_step, file + file_step,
                                     rank_step, file_step)
  ELSE TRUE

game_validate_bishop_normal_move(G, mv) ==
  LET diff_rank == abs_diff(mv.from[1], mv.to[1])
      diff_file == abs_diff(mv.from[2], mv.to[2])
      rank_step == IF mv.from[1] < mv.to[1] THEN 1 ELSE -1
      file_step == IF mv.from[2] < mv.to[2] THEN 1 ELSE -1
  IN IF diff_rank # diff_file THEN FALSE
     ELSE /\ game_bishop_path_empty(G, mv, mv.from[1] + rank_step, mv.from[2] + file_step,
                                    rank_step, file_step)
          /\ is_position_empty_or_color(G.board, mv.to, opposite(G.turn))

game_validate_queen_normal_move(G, mv) ==
  game_validate_rook_normal_move(G, mv) \/ game_validate_bishop_normal_move(G, mv)

game_validate_king_normal_move(G, mv) ==
  /\ abs_diff(mv.from[1], mv.to[1]) <= 1
  /\ abs_diff(mv.from[2], mv.to[2]) <= 1
  /\ is_position_empty_or_color(G.board, mv.to, opposite(G.turn))

game_validate_normal_move(G, mv) ==
  IF ~is_valid(mv.from) \/ ~is_valid(mv.to) \/ mv.from = mv.to THEN FALSE
  ELSE LET piece == get_piece(G.board, mv.from)
       IN IF piece = None \/ color(piece) # G.turn THEN FALSE
          ELSE CASE kind(piece) = Pawn -> game_validate_pawn_normal_move(G, mv)
                 [] kind(piece) = Rook -> game_validate_rook_normal_move(G, mv)
                 [] kind(piece) = Knight -> game_validate_knight_normal_move(G, mv)
                 [] kind(piece) = Bishop -> game_validate_bishop_normal_move(G, mv)
                 [] kind(piece) = Queen -> game_validate_queen_normal_move(G, mv)
                 [] kind(piece) = King -> game_validate_king_normal_move(G, mv)

game_validate_double_advance_move(G, mv) ==
  IF \/ ~is_valid(mv.from)
     \/ ~is_valid(mv.to)
     \/ ~is_position_piece(G.board, mv.from, Piece(G.turn, Pawn))
    THEN FALSE
  ELSE LET start_rank == IF G.turn = White THEN 1 ELSE 6
           forward_one == Position(mv.from[1] + (IF G.turn = White THEN 1 ELSE -1), mv.from[2])
           forward_two == Position(mv.from[1] + (IF G.turn = White THEN 2 ELSE -2), mv.from[2])
       IN /\ mv.from[1] = start_rank
          /\ mv.to = forward_two
          /\ is_position_empty(G.board, forward_one)
          /\ is_position_empty(G.board, mv.to)

\* The file of mv.from is compared with en_passant.0, the rank of the target.
game_validate_en_passant_move(G, mv) ==
  IF ~is_valid(mv.from) \/ ~is_valid(mv.to) \/ mv.from = mv.to THEN FALSE
  ELSE IF get_piece(G.board, mv.from) # Piece(G.turn, Pawn) THEN FALSE
  ELSE IF G.en_passant = None \/ mv.to # G.en_passant THEN FALSE
  ELSE IF mv.from[2] # G.en_passant[1] + 1 /\ mv.from[2] # G.en_passant[1] - 1 THEN FALSE
  ELSE IF G.turn = White THEN mv.from[1] = G.en_passant[1] - 1
  ELSE mv.from[1] = G.en_passant[1] + 1

game_validate_promotion_move(G, mv) ==
  /\ is_valid(mv.pawn.from)
  /\ is_valid(mv.pawn.to)
  /\ mv.pawn.from # mv.pawn.to
  /\ color(mv.promotion) = G.turn
  /\ kind(mv.promotion) \in {Rook, Knight, Bishop, Queen}
  /\ is_position_piece(G.board, mv.pawn.from, Piece(G.turn, Pawn))
  /\ game_validate_pawn_normal_move(G, mv.pawn)

\* The right read is white_king and the attacker Color::Black, for all four castles.
game_validate_castle_move(G, side) ==
  LET q == castling_squares(side)
      me == q[1]
  IN /\ G.castling_rights.white_king
     /\ G.turn = me
     /\ is_position_piece(G.board, q[2], Piece(me, King))
     /\ is_position_piece(G.board, q[5], Piece(me, Rook))
     /\ is_position_empty(G.board, q[3])
     /\ is_position_empty(G.board, q[4])
     /\ ~is_position_in_check(G.board, q[2], Black)
     /\ ~is_position_in_check(G.board, q[3], Black)
     /\ ~is_position_in_check(G.board, q[4], Black)

game_validate_move(G, mv) ==
  CASE mv.type = "Standard" -> game_validate_normal_move(G, mv)
    [] mv.type = "PawnDoubleAdvance" -> game_validate_double_advance_move(G, mv)
    [] mv.type = "PawnEnPassant" -> game_validate_en_passant_move(G, mv)
    [] mv.type = "PawnPromotion" -> game_validate_promotion_move(G, mv)
    [] mv.type = "Castling" -> game_validate_castle_move(G, mv.side)

-----------------------------------------------------------------------------
(* The games the caller replays, move by move, from State::new().  Every    *)
(* move is submitted only if gen_legal_moves returns it.                    *)

\* 1.e4 a6 2.e5 d5 3.exd6 e.p. cxd6
LineEnPassant ==
  << PawnDoubleAdvance(Position(1, 4), Position(3, 4)),
     Standard(Position(6, 0), Position(5, 0)),
     Standard(Position(3, 4), Position(4, 4)),
     PawnDoubleAdvance(Position(6, 3), Position(4, 3)),
     PawnEnPassant(Position(4, 4), Position(5, 3)),
     Standard(Position(6, 2), Position(5, 3)) >>

\* 1.e4 e5 2.Nf3 Nc6 3.Bc4 Bc5 4.O-O Nf6 5.d3 O-O
LineKingSideCastles ==
  << PawnDoubleAdvance(Position(1, 4), Position(3, 4)),
     PawnDoubleAdvance(Position(6, 4), Position(4, 4)),
     Standard(Position(0, 6), Position(2, 5)),
     Standard(Position(7, 1), Position(5, 2)),
     Standard(Position(0, 5), Position(3, 2)),
     Standard(Position(7, 5), Position(4, 2)),
     Castling("WhiteKing"),
     Standard(Position(7, 6), Position(5, 5)),
     Standard(Position(1, 3), Position(2, 3)),
     Castling("BlackKing") >>

\* 1.d4 d5 2.Nc3 Nc6 3.Bf4 Bf5 4.Qd2 Qd7 5.O-O-O O-O-O
LineQueenSideCastles ==
  << PawnDoubleAdvance(Position(1, 3), Position(3, 3)),
     PawnDoubleAdvance(Position(6, 3), Position(4, 3)),
     Standard(Position(0, 1), Position(2, 2)),
     Standard(Position(7, 1), Position(5, 2)),
     Standard(Position(0, 2), Position(3, 5)),
     Standard(Position(7, 2), Position(4, 5)),
     Standard(Position(0, 3), Position(1, 3)),
     Standard(Position(7, 3), Position(6, 3)),
     Castling("WhiteQueen"),
     Castling("BlackQueen") >>

\* 1.b3 g6 2.Bb2 a6 3.Bxh8 Nf6 4.Bxf6
LineCornerCapture ==
  << Standard(Position(1, 1), Position(2, 1)),
     Standard(Position(6, 6), Position(5, 6)),
     Standard(Position(0, 2), Position(1, 1)),
     Standard(Position(6, 0), Position(5, 0)),
     Standard(Position(1, 1), Position(7, 7)),
     Standard(Position(7, 6), Position(5, 5)),
     Standard(Position(7, 7), Position(5, 5)) >>

\* 1.h4 a5 2.Rh3 b5 3.Ra3 c5 4.Ra4
LineRookLift ==
  << PawnDoubleAdvance(Position(1, 7), Position(3, 7)),
     PawnDoubleAdvance(Position(6, 0), Position(4, 0)),
     Standard(Position(0, 7), Position(2, 7)),
     PawnDoubleAdvance(Position(6, 1), Position(4, 1)),
     Standard(Position(2, 7), Position(2, 0)),
     PawnDoubleAdvance(Position(6, 2), Position(4, 2)),
     Standard(Position(2, 0), Position(3, 0)) >>

\* 1.h4 g5 2.hxg5 h6 3.gxh6 a6 4.h7 a5 5.hxg8=R Rxg8
LinePromotion ==
  << PawnDoubleAdvance(Position(1, 7), Position(3, 7)),
     PawnDoubleAdvance(Position(6, 6), Position(4, 6)),
     Standard(Position(3, 7), Position(4, 6)),
     Standard(Position(6, 7), Position(5, 7)),
     Standard(Position(4, 6), Position(5, 7)),
     Standard(Position(6, 0), Position(5, 0)),
     Standard(Position(5, 7), Position(6, 7)),
     Standard(Position(5, 0), Position(4, 0)),
     PawnPromotion(StandardMove(Position(6, 7), Position(7, 6)), Piece(White, Rook)),
     Standard(Position(7, 7), Position(7, 6)) >>

\* 1.g4 h5 2.gxh5 g6 3.hxg6 a6 4.g7 a5 5.gxh8=Q
LinePromotionOnCorner ==
  << PawnDoubleAdvance(Position(1, 6), Position(3, 6)),
     PawnDoubleAdvance(Position(6, 7), Position(4, 7)),
     Standard(Position(3, 6), Position(4, 7)),
     Standard(Position(6, 6), Position(5, 6)),
     Standard(Position(4, 7), Position(5, 6)),
     Standard(Position(6, 0), Position(5, 0)),
     Standard(Position(5, 6), Position(6, 6)),
     Standard(Position(5, 0), Position(4, 0)),
     PawnPromotion(StandardMove(Position(6, 6), Position(7, 7)), Piece(White, Queen)) >>

\* 1.f3 e5 2.g4 Qh4#
LineFoolsMate ==
  << Standard(Position(1, 5), Position(2, 5)),
     PawnDoubleAdvance(Position(6, 4), Position(4, 4)),
     PawnDoubleAdvance(Position(1, 6), Position(3, 6)),
     Standard(Position(7, 3), Position(3, 7)) >>

\* 1.e4 e5 2.Nf3 d6 3.Bb5+ Nc6 4.d4 Bd7
LinePin ==
  << PawnDoubleAdvance(Position(1, 4), Position(3, 4)),
     PawnDoubleAdvance(Position(6, 4), Position(4, 4)),
     Standard(Position(0, 6), Position(2, 5)),
     Standard(Position(6, 3), Position(5, 3)),
     Standard(Position(0, 5), Position(4, 1)),
     Standard(Position(7, 1), Position(5, 2)),
     PawnDoubleAdvance(Position(1, 3), Position(3, 3)),
     Standard(Position(7, 2), Position(6, 3)) >>

\* 1.a3 e5 2.a4 e4 3.d4 exd3 e.p.
LineBlackEnPassant ==
  << Standard(Position(1, 0), Position(2, 0)),
     PawnDoubleAdvance(Position(6, 4), Position(4, 4)),
     Standard(Position(2, 0), Position(3, 0)),
     Standard(Position(4, 4), Position(3, 4)),
     PawnDoubleAdvance(Position(1, 3), Position(3, 3)),
     PawnEnPassant(Position(3, 4), Position(2, 3)) >>

\* 1.a3 h5 2.g4 hxg4 3.h3 gxh3 4.a4 h2 5.a5 hxg1=N
LineBlackPromotion ==
  << Standard(Position(1, 0), Position(2, 0)),
     PawnDoubleAdvance(Position(6, 7), Position(4, 7)),
     PawnDoubleAdvance(Position(1, 6), Position(3, 6)),
     Standard(Position(4, 7), Position(3, 6)),
     Standard(Position(1, 7), Position(2, 7)),
     Standard(Position(3, 6), Position(2, 7)),
     Standard(Position(2, 0), Position(3, 0)),
     Standard(Position(2, 7), Position(1, 7)),
     Standard(Position(3, 0), Position(4, 0)),
     PawnPromotion(StandardMove(Position(1, 7), Position(0, 6)), Piece(Black, Knight)) >>

\* 1.g3 b6 2.Bg2 Ba6 3.Nf3 e6 4.e4 Nc6 5.d3 h6 6.O-O
LineCastleThroughAttack ==
  << Standard(Position(1, 6), Position(2, 6)),
     Standard(Position(6, 1), Position(5, 1)),
     Standard(Position(0, 5), Position(1, 6)),
     Standard(Position(7, 2), Position(5, 0)),
     Standard(Position(0, 6), Position(2, 5)),
     Standard(Position(6, 4), Position(5, 4)),
     PawnDoubleAdvance(Position(1, 4), Position(3, 4)),
     Standard(Position(7, 1), Position(5, 2)),
     Standard(Position(1, 3), Position(2, 3)),
     Standard(Position(6, 7), Position(5, 7)),
     Castling("WhiteKing") >>

\* 1.e4 d6 2.Nf3 Nf6 3.Bc4 g6 4.d3 Bg7 5.Bb5+ c6 6.Ba4 O-O
LineCastleInCheck ==
  << PawnDoubleAdvance(Position(1, 4), Position(3, 4)),
     Standard(Position(6, 3), Position(5, 3)),
     Standard(Position(0, 6), Position(2, 5)),
     Standard(Position(7, 6), Position(5, 5)),
     Standard(Position(0, 5), Position(3, 2)),
     Standard(Position(6, 6), Position(5, 6)),
     Standard(Position(1, 3), Position(2, 3)),
     Standard(Position(7, 5), Position(6, 6)),
     Standard(Position(3, 2), Position(4, 1)),
     Standard(Position(6, 2), Position(5, 2)),
     Standard(Position(4, 1), Position(3, 0)),
     Castling("BlackKing") >>

\* 1.f4 e5 2.g3 Bc5 3.Bg2 d6 4.Nf3 a6 5.e3 h6 6.O-O
LineCastleIntoAttack ==
  << PawnDoubleAdvance(Position(1, 5), Position(3, 5)),
     PawnDoubleAdvance(Position(6, 4), Position(4, 4)),
     Standard(Position(1, 6), Position(2, 6)),
     Standard(Position(7, 5), Position(4, 2)),
     Standard(Position(0, 5), Position(1, 6)),
     Standard(Position(6, 3), Position(5, 3)),
     Standard(Position(0, 6), Position(2, 5)),
     Standard(Position(6, 0), Position(5, 0)),
     Standard(Position(1, 4), Position(2, 4)),
     Standard(Position(6, 7), Position(5, 7)),
     Castling("WhiteKing") >>

\* 1.Nf3 a6 2.g3 b6 3.Bg2 c6 4.Rg1 d6 5.Rh1 e6 6.Kf1
LineRookReturns ==
  << Standard(Position(0, 6), Position(2, 5)),
     Standard(Position(6, 0), Position(5, 0)),
     Standard(Position(1, 6), Position(2, 6)),
     Standard(Position(6, 1), Position(5, 1)),
     Standard(Position(0, 5), Position(1, 6)),
     Standard(Position(6, 2), Position(5, 2)),
     Standard(Position(0, 7), Position(0, 6)),
     Standard(Position(6, 3), Position(5, 3)),
     Standard(Position(0, 6), Position(0, 7)),
     Standard(Position(6, 4), Position(5, 4)),
     Standard(Position(0, 4), Position(0, 5)) >>

\* 1.d4 d5 2.Bf4 Nc6 3.Qd2 Nf6 4.Nc3 e6 5.O-O-O
LineQueenSideKnightHome ==
  << PawnDoubleAdvance(Position(1, 3), Position(3, 3)),
     PawnDoubleAdvance(Position(6, 3), Position(4, 3)),
     Standard(Position(0, 2), Position(3, 5)),
     Standard(Position(7, 1), Position(5, 2)),
     Standard(Position(0, 3), Position(1, 3)),
     Standard(Position(7, 6), Position(5, 5)),
     Standard(Position(0, 1), Position(2, 2)),
     Standard(Position(6, 4), Position(5, 4)),
     Castling("WhiteQueen") >>

\* 1.d4 d6 2.Na3 Bf5 3.Bf4 Nf6 4.Qd2 e6 5.c4 h6 6.O-O-O
LineQueenSideKnightSquareAttacked ==
  << PawnDoubleAdvance(Position(1, 3), Position(3, 3)),
     Standard(Position(6, 3), Position(5, 3)),
     Standard(Position(0, 1), Position(2, 0)),
     Standard(Position(7, 2), Position(4, 5)),
     Standard(Position(0, 2), Position(3, 5)),
     Standard(Position(7, 6), Position(5, 5)),
     Standard(Position(0, 3), Position(1, 3)),
     Standard(Position(6, 4), Position(5, 4)),
     PawnDoubleAdvance(Position(1, 2), Position(3, 2)),
     Standard(Position(6, 7), Position(5, 7)),
     Castling("WhiteQueen") >>

\* 1.d4 d6 2.Nc3 Bg4 3.Bf4 Nf6 4.Qd2 e6 5.e3 h6 6.Be2 a6 7.O-O-O
LineQueenSideThroughAttack ==
  << PawnDoubleAdvance(Position(1, 3), Position(3, 3)),
     Standard(Position(6, 3), Position(5, 3)),
     Standard(Position(0, 1), Position(2, 2)),
     Standard(Position(7, 2), Position(3, 6)),
     Standard(Position(0, 2), Position(3, 5)),
     Standard(Position(7, 6), Position(5, 5)),
     Standard(Position(0, 3), Position(1, 3)),
     Standard(Position(6, 4), Position(5, 4)),
     Standard(Position(1, 4), Position(2, 4)),
     Standard(Position(6, 7), Position(5, 7)),
     Standard(Position(0, 5), Position(1, 4)),
     Standard(Position(6, 0), Position(5, 0)),
     Castling("WhiteQueen") >>

\* 1.d4 e6 2.Nc3 Ba3 3.Bf4 Nf6 4.Qd2 h6 5.b3 a6 6.e3
LineQueenSideIntoAttack ==
  << PawnDoubleAdvance(Position(1, 3), Position(3, 3)),
     Standard(Position(6, 4), Position(5, 4)),
     Standard(Position(0, 1), Position(2, 2)),
     Standard(Position(7, 5), Position(2, 0)),
     Standard(Position(0, 2), Position(3, 5)),
     Standard(Position(7, 6), Position(5, 5)),
     Standard(Position(0, 3), Position(1, 3)),
     Standard(Position(6, 7), Position(5, 7)),
     Standard(Position(1, 1), Position(2, 1)),
     Standard(Position(6, 0), Position(5, 0)),
     Standard(Position(1, 4), Position(2, 4)) >>

\* 1.h4 g5 2.hxg5 h6 3.gxh6 Nf6 4.h7 Rg8 5.h8=Q
LinePromotionPush ==
  << PawnDoubleAdvance(Position(1, 7), Position(3, 7)),
     PawnDoubleAdvance(Position(6, 6), Position(4, 6)),
     Standard(Position(3, 7), Position(4, 6)),
     Standard(Position(6, 7), Position(5, 7)),
     Standard(Position(4, 6), Position(5, 7)),
     Standard(Position(7, 6), Position(5, 5)),
     Standard(Position(5, 7), Position(6, 7)),
     Standard(Position(7, 7), Position(7, 6)),
     PawnPromotion(StandardMove(Position(6, 7), Position(7, 7)), Piece(White, Queen)) >>

\* 1.Nf3 Nf6 2.Rg1 Ng8 3.Rh1 Nf6 4.Rg1
LineRookShuffle ==
  << Standard(Position(0, 6), Position(2, 5)),
     Standard(Position(7, 6), Position(5, 5)),
     Standard(Position(0, 7), Position(0, 6)),
     Standard(Position(5, 5), Position(7, 6)),
     Standard(Position(0, 6), Position(0, 7)),
     Standard(Position(7, 6), Position(5, 5)),
     Standard(Position(0, 7), Position(0, 6)) >>

\* 1.Nf3 Nf6 2.Ng1 Ng8 3.Nf3 Nf6 4.Rg1
LineKnightShuffle ==
  << Standard(Position(0, 6), Position(2, 5)),
     Standard(Position(7, 6), Position(5, 5)),
     Standard(Position(2, 5), Position(0, 6)),
     Standard(Position(5, 5), Position(7, 6)),
     Standard(Position(0, 6), Position(2, 5)),
     Standard(Position(7, 6), Position(5, 5)),
     Standard(Position(0, 7), Position(0, 6)) >>

\* 1.g4 b6 2.a4 Bb7 3.Ra3 Bxh1 4.Nh3 Bb7 5.e4 a6 6.Be2 h6 7.Rg3 a5 8.Rg1 Nc6 9.Rh1 Na7 10.O-O
LineCornerRookReplaced ==
  << PawnDoubleAdvance(Position(1, 6), Position(3, 6)),
     Standard(Position(6, 1), Position(5, 1)),
     PawnDoubleAdvance(Position(1, 0), Position(3, 0)),
     Standard(Position(7, 2), Position(6, 1)),
     Standard(Position(0, 0), Position(2, 0)),
     Standard(Position(6, 1), Position(0, 7)),
     Standard(Position(0, 6), Position(2, 7)),
     Standard(Position(0, 7), Position(6, 1)),
     PawnDoubleAdvance(Position(1, 4), Position(3, 4)),
     Standard(Position(6, 0), Position(5, 0)),
     Standard(Position(0, 5), Position(1, 4)),
     Standard(Position(6, 7), Position(5, 7)),
     Standard(Position(2, 0), Position(2, 6)),
     Standard(Position(5, 0), Position(4, 0)),
     Standard(Position(2, 6), Position(0, 6)),
     Standard(Position(7, 1), Position(5, 2)),
     Standard(Position(0, 6), Position(0, 7)),
     Standard(Position(5, 2), Position(6, 0)),
     Castling("WhiteKing") >>

Lines ==
  << LineEnPassant,
     LineKingSideCastles,
     LineQueenSideCastles,
     LineCornerCapture,
     LineRookLift,
     LinePromotion,
     LinePromotionOnCorner,
     LineFoolsMate,
     LinePin,
     LineBlackEnPassant,
     LineBlackPromotion,
     LineCastleThroughAttack,
     LineCastleInCheck,
     LineCastleIntoAttack,
     LineRookReturns,
     LineQueenSideKnightHome,
     LineQueenSideKnightSquareAttacked,
     LineQueenSideThroughAttack,
     LineQueenSideIntoAttack,
     LinePromotionPush,
     LineRookShuffle,
     LineKnightShuffle,
     LineCornerRookReplaced >>

\* Plies of unrestricted legal play from the start position (line 0).
FreePlies == 1

\* Plies of the exhaustive walk of the game tree, and the deepest perft computed.
WalkPlies == 2
PerftDepth == 4

-----------------------------------------------------------------------------
(* The moves handed to make_move without asking gen_legal_moves first       *)
(* (make_move does not validate its argument).                              *)

AnySquares == {Position(0, 0), Position(0, 4), Position(7, 4), Position(7, 7), Position(2, 0)}

AnyMoves ==
  {Standard(f, t) : f \in AnySquares, t \in AnySquares \ {Position(2, 0)}}
    \cup {PawnDoubleAdvance(Position(1, 0), Position(3, 0)),
          PawnDoubleAdvance(Position(6, 7), Position(4, 7)),
          PawnEnPassant(Position(1, 1), Position(2, 0)),
          PawnPromotion(StandardMove(Position(1, 0), Position(7, 7)), Piece(White, Rook)),
          PawnPromotion(StandardMove(Position(6, 7), Position(0, 0)), Piece(Black, Queen))}
    \cup {Castling(side) : side \in CastlingMove}

\* Calls of make_move with unvalidated moves.
AnyPlies == 2

a1 == Position(0, 0)
e1 == Position(0, 4)
h1 == Position(0, 7)
a8 == Position(7, 0)
e8 == Position(7, 4)
h8 == Position(7, 7)

\* The from and to squares of a move (a castle moves the king from its start
\* square and the rook from its corner).
FromTo(mv) ==
  CASE mv.type = "PawnPromotion" -> {mv.pawn.from, mv.pawn.to}
    [] mv.type = "Castling" ->
         {castling_squares(mv.side)[2], castling_squares(mv.side)[4],
          castling_squares(mv.side)[5], castling_squares(mv.side)[3]}
    [] OTHER -> {mv.from, mv.to}

Corners == {a1, h1, a8, h8}

-----------------------------------------------------------------------------
(* The state machine *)

VARIABLES
  state,   \* the State object
  last,    \* the argument of the latest State::make_move call
  prev,    \* the State before the latest State::make_move call
  line,    \* the game the caller replays (0: any legal move)
  game,    \* the Game object
  gprev,   \* the Game before the latest Game::make_move call
  gone,    \* history: the corners whose first rook has moved away or was captured
  calls    \* history: the number of State::make_move calls made

vars == <<state, last, prev, line, game, gprev, gone, calls>>

NoMove == [type |-> "NoMove"]

Init ==
  /\ state = StateNew
  /\ last = NoMove
  /\ prev = StateNew
  /\ line \in 0..Len(Lines)
  /\ game = GameNew
  /\ gprev = GameNew
  /\ gone = {}
  /\ calls = 0

\* The moves of a list of (move, new state) pairs.
moves_of(L) == {L[i][1] : i \in 1..Len(L)}

legal_moves(S) == moves_of(gen_legal_moves(S))

\* The caller is still playing: FreePlies plies on line 0, to the end of the
\* game on a replayed line.
Playing ==
  IF line = 0 THEN state.half_moves < FreePlies
  ELSE state.half_moves < Len(Lines[line])

\* The caller's choice among the moves gen_legal_moves returns: any of them on
\* line 0, the next move of the game on a replayed line.
Chosen(mv) == line = 0 \/ mv = Lines[line][state.half_moves + 1]

Submitted == IF Playing THEN {mv \in legal_moves(state) : Chosen(mv)} ELSE {}

\* state.make_move(mv)
MakeMove(mv) ==
  /\ state' = make_move(state, mv)
  /\ last' = mv
  /\ prev' = state
  /\ gone' = gone \cup (Corners \cap FromTo(mv))
  /\ calls' = calls + 1
  /\ UNCHANGED <<line, game, gprev>>

MakeNormalMove == \E mv \in Submitted : mv.type = "Standard" /\ MakeMove(mv)
MakeDoubleAdvanceMove == \E mv \in Submitted : mv.type = "PawnDoubleAdvance" /\ MakeMove(mv)
MakeEnPassantMove == \E mv \in Submitted : mv.type = "PawnEnPassant" /\ MakeMove(mv)
MakePromotionMove == \E mv \in Submitted : mv.type = "PawnPromotion" /\ MakeMove(mv)
MakeCastlingMove == \E mv \in Submitted : mv.type = "Castling" /\ MakeMove(mv)

Next ==
  \/ MakeNormalMove
  \/ MakeDoubleAdvanceMove
  \/ MakeEnPassantMove
  \/ MakePromotionMove
  \/ MakeCastlingMove

Spec == Init /\ [][Next]_vars

\* The exhaustive walk: every legal move of every position, WalkPlies deep.
InitWalk == Init /\ line = 0

Walk == \E mv \in legal_moves(state) : state.half_moves < WalkPlies /\ MakeMove(mv)

SpecPerft == InitWalk /\ [][Walk]_vars

\* make_move called with moves that were not validated, next to the legal play.
MakeAnyMove ==
  \E mv \in AnyMoves : line = 0 /\ state.half_moves < AnyPlies /\ MakeMove(mv)

NextAny == Next \/ MakeAnyMove

SpecAny == Init /\ [][NextAny]_vars

\* game.make_move(mv): a Game replays the same games, on its own.
GameMakeMove ==
  /\ line > 0
  /\ game.half_moves < Len(Lines[line])
  /\ game' = game_make_move(game, Lines[line][game.half_moves + 1])
  /\ gprev' = game
  /\ UNCHANGED <<state, last, prev, line, gone, calls>>

NextBoth == Next \/ GameMakeMove

SpecBoth == Init /\ [][NextBoth]_vars

-----------------------------------------------------------------------------
(* The rules of chess the properties are stated with: which squares a piece *)
(* attacks, stated from the attacker's side.                                *)

Squares == {Position(x, y) : x \in 0..7, y \in 0..7}

Abs(n) == IF n < 0 THEN -n ELSE n
Sign(n) == IF n < 0 THEN -1 ELSE IF n > 0 THEN 1 ELSE 0
Max(a, b) == IF a > b THEN a ELSE b

\* The squares strictly between f and t, on a common rank, file or diagonal, are empty.
ClearBetween(b, f, t) ==
  \A i \in 1..(Max(Abs(t[1] - f[1]), Abs(t[2] - f[2])) - 1) :
    get_piece(b, Position(f[1] + i * Sign(t[1] - f[1]), f[2] + i * Sign(t[2] - f[2]))) = None

OnLine(f, t) == f[1] = t[1] \/ f[2] = t[2]
OnDiagonal(f, t) == Abs(t[1] - f[1]) = Abs(t[2] - f[2])

\* The piece p standing on f attacks t.
Attacks(b, p, f, t) ==
  /\ f # t
  /\ CASE kind(p) = Pawn ->
            /\ t[1] - f[1] = (IF color(p) = White THEN 1 ELSE -1)
            /\ Abs(t[2] - f[2]) = 1
       [] kind(p) = Knight -> {Abs(t[1] - f[1]), Abs(t[2] - f[2])} = {1, 2}
       [] kind(p) = King -> Max(Abs(t[1] - f[1]), Abs(t[2] - f[2])) = 1
       [] kind(p) = Rook -> OnLine(f, t) /\ ClearBetween(b, f, t)
       [] kind(p) = Bishop -> OnDiagonal(f, t) /\ ClearBetween(b, f, t)
       [] kind(p) = Queen -> (OnLine(f, t) \/ OnDiagonal(f, t)) /\ ClearBetween(b, f, t)

\* Some piece of colour c attacks t.
Attacked(b, t, c) ==
  \E f \in Squares :
    /\ get_piece(b, f) # None
    /\ color(get_piece(b, f)) = c
    /\ Attacks(b, get_piece(b, f), f, t)

\* No king of colour c is attacked by a piece of the other colour.
KingSafe(b, c) ==
  \A sq \in Squares : get_piece(b, sq) = Piece(c, King) => ~Attacked(b, sq, opposite(c))

AllNextSafe(L, c) == \A i \in 1..Len(L) : KingSafe(L[i][2].board, c)

MovesSeq(L) == [i \in 1..Len(L) |-> L[i][1]]

SafeAfter(S, mv) == KingSafe(make_move(S, mv).board, S.player)

SafeMoves(S, moves) == SelectSeq(moves, LAMBDA mv : SafeAfter(S, mv))

SomeUnsafe(S, moves) == \E i \in 1..Len(moves) : ~SafeAfter(S, moves[i])

-----------------------------------------------------------------------------
(* Properties *)

\* C1: in every state reached through moves returned by gen_legal_moves, every
\* (move, next) pair gen_legal_moves returns has, in next, the king of the side
\* that just moved not attacked by any piece of the other colour.
C1_LegalMovesLeaveKingSafe == AllNextSafe(gen_legal_moves(state), state.player)

\* C1 witness: gen_legal_moves returned some moves and withheld others.
C1_Witness ==
  /\ Len(gen_legal_moves(state)) > 0
  /\ Len(gen_legal_moves(state)) < Len(gen_potential_legal_moves(state))

\* C2: gen_legal_moves returns exactly the moves of gen_potential_legal_moves
\* after which the mover's king is not attacked, none added and none dropped,
\* in the generator's order.
C2_LegalIsSafePseudoLegal ==
  MovesSeq(gen_legal_moves(state)) = SafeMoves(state, gen_potential_legal_moves(state))

\* C2 witness: the side to move is in check, some pseudo-legal move leaves its
\* king attacked and some move is returned.
C2_Witness ==
  /\ ~KingSafe(state.board, state.player)
  /\ SomeUnsafe(state, gen_potential_legal_moves(state))
  /\ Len(gen_legal_moves(state)) > 0

PerftTable == <<20, 400, 8902, 197281, 4865609>>

BackRank == <<Rook, Knight, Bishop, Queen, King, Bishop, Knight, Rook>>

\* The standard start board, the state before any make_move.
StartBoard(b) ==
  \A y \in 0..7 :
    /\ get_piece(b, Position(0, y)) = Piece(White, BackRank[y + 1])
    /\ get_piece(b, Position(1, y)) = Piece(White, Pawn)
    /\ \A x \in 2..5 : get_piece(b, Position(x, y)) = None
    /\ get_piece(b, Position(6, y)) = Piece(Black, Pawn)
    /\ get_piece(b, Position(7, y)) = Piece(Black, BackRank[y + 1])

StartFields(S) ==
  /\ StartBoard(S.board)
  /\ S.player = White
  /\ S.en_passant = None
  /\ S.castling_rights.white_king /\ S.castling_rights.white_queen
  /\ S.castling_rights.black_king /\ S.castling_rights.black_queen
  /\ S.half_moves = 0

PawnMoveOrCapture(S, mv) ==
  \/ mv.type \in {"PawnDoubleAdvance", "PawnEnPassant", "PawnPromotion"}
  \/ /\ mv.type = "Standard"
     /\ \/ kind(get_piece(S.board, mv.from)) = Pawn
        \/ get_piece(S.board, mv.to) # None

FullMoveStep(mover) == IF mover = Black THEN 1 ELSE 0

\* C6: full_moves increases by exactly 1 on every make_move made while Black is
\* to move and is unchanged by every make_move made while White is to move,
\* for State::make_move and for Game::make_move.
C6_FullMovesStepsOnBlack ==
  [][/\ state' # state => state'.full_moves = state.full_moves + FullMoveStep(state.player)
     /\ game' # game => game'.full_moves = game.full_moves + FullMoveStep(game.turn)]_vars

\* C6 witness: the State and the Game have both made a move for Black, and the
\* State a further move for White.
C6_Witness ==
  /\ prev.player = White /\ state.full_moves = 2 /\ prev.full_moves = 2
  /\ gprev.turn = Black /\ game.full_moves = 2

Rights == {"white_king", "white_queen", "black_king", "black_queen"}

\* C7: along any sequence of make_move calls a castling right, once cleared, is
\* never set again (so each right goes from set to cleared at most once).
C7_CastlingRightsMonotone ==
  [][\A r \in Rights : ~state.castling_rights[r] => ~state'.castling_rights[r]]_vars

\* C7 witness: a right cleared by an earlier make_move is still cleared after a
\* move of the other colour's king, whose own rights went with it.
C7_Witness ==
  /\ ~prev.castling_rights.white_king /\ prev.castling_rights.black_king
  /\ last.type \in {"Standard", "Castling"}
  /\ ~state.castling_rights.white_king /\ ~state.castling_rights.black_king

\* C8 as claimed: make_move leaves all four castling rights unchanged for every
\* move whose from and to squares are both outside a1, h1, e1, a8, h8, e8.
C8_RightsUnchangedOffSixSquares ==
  (last # NoMove /\ FromTo(last) \cap {a1, h1, e1, a8, h8, e8} = {})
    => state.castling_rights = prev.castling_rights

CornerRight(sq) ==
  CASE sq = a1 -> "white_queen"
    [] sq = h1 -> "white_king"
    [] sq = a8 -> "black_queen"
    [] sq = h8 -> "black_king"

\* C9 as claimed: after make_move of a move whose from or to square is a
\* corner, the right tied to that corner is cleared, a capture on the corner
\* included.
C9_CornerMoveClearsRight ==
  last # NoMove =>
    \A sq \in FromTo(last) \cap {a1, h1, a8, h8} : ~state.castling_rights[CornerRight(sq)]

KingStart(c) == IF c = White THEN e1 ELSE e8

\* The move mv, made in S, is made by the king of colour c from its start square.
KingMoveFromStart(S, mv, c) ==
  /\ get_piece(S.board, KingStart(c)) = Piece(c, King)
  /\ \/ mv.type = "Standard" /\ mv.from = KingStart(c)
     \/ mv.type = "Castling" /\ castling_squares(mv.side)[1] = c

BothCleared(r, c) ==
  IF c = White THEN ~r.white_king /\ ~r.white_queen
  ELSE ~r.black_king /\ ~r.black_queen

\* C10: after make_move of a move made by the king of colour c from its start
\* square (a standard king move or a castle to either side), both castling
\* rights of colour c are cleared.
C10_KingMoveClearsBoth ==
  \A c \in Color : KingMoveFromStart(prev, last, c) => BothCleared(state.castling_rights, c)

\* C10 witness: a castle has been made by a king that had both rights.
C10_Witness ==
  /\ last.type = "Castling"
  /\ KingMoveFromStart(prev, last, Black)
  /\ prev.castling_rights.black_king /\ prev.castling_rights.black_queen
  /\ BothCleared(state.castling_rights, Black)

\* The square sq is midway between f and t on their common file.
Midway(sq, f, t) ==
  /\ sq # None
  /\ sq[2] = f[2] /\ sq[2] = t[2]
  /\ sq[1] - f[1] = t[1] - sq[1]

\* C11: after make_move of a double pawn advance from f to t, en_passant is the
\* square midway between f and t on the same file; after make_move of a move
\* of any other kind, en_passant is None.
C11_EnPassantTarget ==
  last # NoMove =>
    IF last.type = "PawnDoubleAdvance"
      THEN Midway(state.en_passant, last.from, last.to)
      ELSE state.en_passant = None

\* C11 witness: Black's double advance has set the target on rank 6 (row 5),
\* after a move that cleared the target White's double advance had set.
C11_Witness ==
  /\ last.type = "PawnDoubleAdvance" /\ last.from[1] = 6
  /\ state.en_passant = Position(5, last.from[2])
  /\ prev.en_passant = None /\ prev.half_moves >= 2

\* The square of the pawn an en-passant move from f to t captures.
CapturedSquare(f, t) == Position(f[1], t[2])

\* C12: make_move of an en-passant move from f to t moves the capturing pawn to
\* t, empties f, empties the square on f's rank and t's file, and leaves every
\* other square of the board unchanged.
C12_EnPassantBoard ==
  last.type = "PawnEnPassant" =>
    \A sq \in Squares :
      get_piece(state.board, sq) =
        IF sq = last.to THEN get_piece(prev.board, last.from)
        ELSE IF sq \in {last.from, CapturedSquare(last.from, last.to)} THEN None
        ELSE get_piece(prev.board, sq)

\* C12 witness: a black pawn has captured a white pawn en passant.
C12_Witness ==
  /\ last.type = "PawnEnPassant"
  /\ get_piece(prev.board, CapturedSquare(last.from, last.to)) = Piece(White, Pawn)
  /\ get_piece(state.board, last.to) = Piece(Black, Pawn)
  /\ prev.en_passant = last.to

CastleColor(side) == IF side \in {"WhiteKing", "WhiteQueen"} THEN White ELSE Black
BackRankOf(c) == IF c = White THEN 0 ELSE 7
KingSide(side) == side \in {"WhiteKing", "BlackKing"}

\* The board after a castle to `side`, given the board b before it.
CastledSquare(b, side, sq) ==
  LET c == CastleColor(side)
      king_file == IF KingSide(side) THEN 6 ELSE 2
      rook_file == IF KingSide(side) THEN 5 ELSE 3
      corner_file == IF KingSide(side) THEN 7 ELSE 0
  IN IF sq[1] # BackRankOf(c) THEN get_piece(b, sq)
     ELSE IF sq[2] = king_file THEN Piece(c, King)
     ELSE IF sq[2] = rook_file THEN Piece(c, Rook)
     ELSE IF sq[2] \in {4, corner_file} THEN None
     ELSE get_piece(b, sq)

\* C13: make_move of a castling move of colour c puts c's king on the g-file
\* and c's rook on the f-file (king-side), or c's king on the c-file and c's
\* rook on the d-file (queen-side), of c's back rank, empties the e-file square
\* and the rook's corner, and leaves every other square unchanged.
C13_CastleBoard ==
  last.type = "Castling" =>
    \A sq \in Squares : get_piece(state.board, sq) = CastledSquare(prev.board, last.side, sq)

\* C13 witness: Black has castled queen-side, legally.
C13_Witness ==
  /\ last.type = "Castling" /\ last.side = "BlackQueen"
  /\ validate_castling_move(prev, last.side)
  /\ get_piece(state.board, Position(7, 2)) = Piece(Black, King)
  /\ get_piece(state.board, Position(7, 3)) = Piece(Black, Rook)

\* C14: make_move of a promotion move from f to t with promotion piece kind K
\* made by side c leaves a piece (c, K) on t, leaves f empty, removes whatever
\* stood on t before, and leaves every other square unchanged; no pawn remains
\* on t.
C14_PromotionBoard ==
  last.type = "PawnPromotion" =>
    /\ \A sq \in Squares :
         get_piece(state.board, sq) =
           IF sq = last.pawn.to THEN Piece(prev.player, kind(last.promotion))
           ELSE IF sq = last.pawn.from THEN None
           ELSE get_piece(prev.board, sq)
    /\ kind(get_piece(state.board, last.pawn.to)) # Pawn

\* C14 witness: a black pawn has promoted with a capture.
C14_Witness ==
  /\ last.type = "PawnPromotion"
  /\ prev.player = Black
  /\ get_piece(prev.board, last.pawn.from) = Piece(Black, Pawn)
  /\ get_piece(prev.board, last.pawn.to) # None
  /\ get_piece(state.board, last.pawn.to) = Piece(Black, Knight)

\* The elements of a sequence of moves.
Emitted(moves) == {moves[i] : i \in 1..Len(moves)}

\* The castling right of colour c to the king side or to the queen side.
RightOf(r, c, king_side) ==
  IF c = White THEN (IF king_side THEN r.white_king ELSE r.white_queen)
  ELSE (IF king_side THEN r.black_king ELSE r.black_queen)

CastleOf(c, king_side) ==
  IF c = White THEN (IF king_side THEN Castling("WhiteKing") ELSE Castling("WhiteQueen"))
  ELSE (IF king_side THEN Castling("BlackKing") ELSE Castling("BlackQueen"))

\* The squares of files `files` on c's back rank are empty in S, or unattacked
\* by c's opponent.
BackRankEmpty(S, c, files) ==
  \A y \in files : get_piece(S.board, Position(BackRankOf(c), y)) = None
BackRankUnattacked(S, c, files) ==
  \A y \in files : ~Attacked(S.board, Position(BackRankOf(c), y), opposite(c))

\* c's king is on the e-file square and a rook of c on the corner of file y.
KingAndRookHome(S, c, y) ==
  /\ get_piece(S.board, Position(BackRankOf(c), 4)) = Piece(c, King)
  /\ get_piece(S.board, Position(BackRankOf(c), y)) = Piece(c, Rook)

KingSideConditions(S, c) ==
  /\ RightOf(S.castling_rights, c, TRUE)
  /\ BackRankEmpty(S, c, {5, 6})
  /\ BackRankUnattacked(S, c, {4, 5, 6})

CastleGenerationKingSide(S, moves) ==
  /\ CastleOf(S.player, TRUE) \in Emitted(moves) => KingSideConditions(S, S.player)
  /\ (KingSideConditions(S, S.player) /\ KingAndRookHome(S, S.player, 7))
       => CastleOf(S.player, TRUE) \in Emitted(moves)

\* C15: a king-side castling move for the side to move c is generated only if
\* c's king-side right is set, the f- and g-file squares of c's back rank are
\* empty and none of the e-, f- and g-file squares is attacked by the opponent;
\* and it is generated whenever those conditions hold with c's king on the
\* e-file square and a rook of colour c on the h-file corner.
C15_KingSideCastleGenerated ==
  CastleGenerationKingSide(state, gen_potential_legal_moves(state))

\* C15 witness: the king-side castle is generated for Black, who was in check
\* on e8 with f8 and g8 empty two plies earlier.
C15_Witness ==
  /\ state.player = Black
  /\ Castling("BlackKing") \in Emitted(gen_potential_legal_moves(state))
  /\ line = 13

QueenSideConditions(S, c) ==
  /\ RightOf(S.castling_rights, c, FALSE)
  /\ BackRankEmpty(S, c, {1, 2, 3})
  /\ BackRankUnattacked(S, c, {4, 3, 2})

CastleGenerationQueenSide(S, moves) ==
  /\ CastleOf(S.player, FALSE) \in Emitted(moves) => QueenSideConditions(S, S.player)
  /\ (QueenSideConditions(S, S.player) /\ KingAndRookHome(S, S.player, 0))
       => CastleOf(S.player, FALSE) \in Emitted(moves)

\* C16: a queen-side castling move for the side to move c is generated only if
\* c's queen-side right is set, the b-, c- and d-file squares of c's back rank
\* are empty and none of the e-, d- and c-file squares is attacked by the
\* opponent; with those conditions, king and rook on their squares, it is
\* generated whether or not the b-file square is attacked.
C16_QueenSideCastleGenerated ==
  CastleGenerationQueenSide(state, gen_potential_legal_moves(state))

\* C16 witness: the queen-side castle is generated while the b-file square of
\* the back rank is attacked.
C16_Witness ==
  /\ CastleOf(state.player, FALSE) \in Emitted(gen_potential_legal_moves(state))
  /\ Attacked(state.board, Position(BackRankOf(state.player), 1), opposite(state.player))

\* The direction pawns of colour c advance in, their start rank and the rank
\* they promote on (as row indices).
Forward(c) == IF c = White THEN 1 ELSE -1
StartRank(c) == IF c = White THEN 1 ELSE 6
PromotionRank(c) == IF c = White THEN 7 ELSE 0

Ahead(f, c, n) == Position(f[1] + n * Forward(c), f[2])

\* The squares holding a pawn of the side to move.
PawnSquares(S) == {f \in Squares : get_piece(S.board, f) = Piece(S.player, Pawn)}

DoubleAdvanceGeneration(S, moves) ==
  /\ \A f \in PawnSquares(S) :
       PawnDoubleAdvance(f, Ahead(f, S.player, 2)) \in Emitted(moves)
         <=> /\ f[1] = StartRank(S.player)
             /\ get_piece(S.board, Ahead(f, S.player, 1)) = None
             /\ get_piece(S.board, Ahead(f, S.player, 2)) = None
  /\ \A mv \in Emitted(moves) :
       mv.type = "PawnDoubleAdvance" =>
         mv.from \in PawnSquares(S) /\ mv.to = Ahead(mv.from, S.player, 2)

\* C17: the pseudo-legal generator emits a double pawn advance for a pawn of
\* the side to move if and only if the pawn stands on its start rank and both
\* the square one step ahead and the square two steps ahead on its file are
\* empty (and it emits no other double advance).
C17_DoubleAdvanceGenerated ==
  DoubleAdvanceGeneration(state, gen_potential_legal_moves(state))

\* C17 witness: a pawn on its start rank has the square ahead empty and the
\* square two ahead occupied, another has a double advance emitted.
C17_Witness ==
  /\ \E f \in PawnSquares(state) :
       /\ f[1] = StartRank(state.player)
       /\ get_piece(state.board, Ahead(f, state.player, 1)) = None
       /\ get_piece(state.board, Ahead(f, state.player, 2)) # None
  /\ \E f \in PawnSquares(state) :
       PawnDoubleAdvance(f, Ahead(f, state.player, 2))
         \in Emitted(gen_potential_legal_moves(state))

\* The positions, in the sequence moves, of the promotion moves of the pawn
\* move from f to t.
PromotionsAt(moves, f, t) ==
  {i \in 1..Len(moves) :
     moves[i].type = "PawnPromotion" /\ moves[i].pawn = StandardMove(f, t)}

FourPromotions(f, t, c) ==
  {PawnPromotion(StandardMove(f, t), Piece(c, K)) : K \in {Rook, Knight, Bishop, Queen}}

\* The pawn on f can move to t: a push onto the empty square ahead or a
\* capture of an opponent piece on a forward diagonal.
PawnReaches(S, f, t) ==
  /\ t[1] = f[1] + Forward(S.player)
  /\ \/ t[2] = f[2] /\ get_piece(S.board, t) = None
     \/ /\ t[2] \in {f[2] - 1, f[2] + 1}
        /\ get_piece(S.board, t) # None
        /\ color(get_piece(S.board, t)) = S.opponent

PromotionGeneration(S, moves) ==
  /\ \A f \in PawnSquares(S) : \A t \in Squares :
       IF t[1] = PromotionRank(S.player) /\ PawnReaches(S, f, t)
         THEN /\ Cardinality(PromotionsAt(moves, f, t)) = 4
              /\ {moves[i] : i \in PromotionsAt(moves, f, t)}
                   = FourPromotions(f, t, S.player)
              /\ Standard(f, t) \notin Emitted(moves)
         ELSE PromotionsAt(moves, f, t) = {}
  /\ \A mv \in Emitted(moves) :
       mv.type = "PawnPromotion" => mv.pawn.from \in PawnSquares(S)

\* C18: for every pawn push or pawn capture whose destination is on the
\* promotion rank the generator emits exactly four promotion moves for that
\* (from, to) pair, one each for rook, knight, bishop and queen of the mover's
\* colour, and no standard move; for every other pawn destination it emits no
\* promotion move.
C18_PromotionsGenerated ==
  PromotionGeneration(state, gen_potential_legal_moves(state))

\* C18 witness: a pawn one step from the promotion rank can both push and
\* capture onto it.
C18_Witness ==
  \E f \in PawnSquares(state) :
    /\ PawnReaches(state, f, Ahead(f, state.player, 1))
    /\ Ahead(f, state.player, 1)[1] = PromotionRank(state.player)
    /\ \E t \in Squares :
         t[2] # f[2] /\ t[1] = PromotionRank(state.player) /\ PawnReaches(state, f, t)
    /\ Cardinality({i \in 1..Len(gen_potential_legal_moves(state)) :
                      gen_potential_legal_moves(state)[i].type = "PawnPromotion"}) = 8

\* t is one of the two forward-diagonal squares of a pawn of colour c on f.
ForwardDiagonal(f, t, c) ==
  t[1] = f[1] + Forward(c) /\ t[2] \in {f[2] - 1, f[2] + 1}

\* The en-passant moves among the moves.
EnPassantMoves(moves) ==
  {moves[i] : i \in {j \in 1..Len(moves) : moves[j].type = "PawnEnPassant"}}

\* The moves from a pawn of the side to move to the en-passant target.
ToEnPassantTarget(S) ==
  {PawnEnPassant(f, t) : f \in PawnSquares(S), t \in {u \in Squares : S.en_passant = u}}

EnPassantGeneration(S, moves) ==
  EnPassantMoves(moves)
    = {mv \in ToEnPassantTarget(S) : ForwardDiagonal(mv.from, mv.to, S.player)}

\* C19: in every reachable state the pseudo-legal generator emits an en-passant
\* move from f to t if and only if f holds a pawn of the side to move,
\* en_passant is Some(t) and t is one of that pawn's two forward-diagonal
\* squares.
C19_EnPassantGenerated ==
  EnPassantGeneration(state, gen_potential_legal_moves(state))

\* C19 witness: an en-passant capture is emitted for a black pawn, and not for
\* the black pawns that are not beside the target.
C19_Witness ==
  /\ state.player = Black
  /\ state.en_passant # None
  /\ \E f \in PawnSquares(state) :
       PawnEnPassant(f, state.en_passant) \in Emitted(gen_potential_legal_moves(state))
  /\ \E f \in PawnSquares(state) : ~ForwardDiagonal(f, state.en_passant, Black)

\* The squares holding a rook, bishop or queen of the side to move.
SliderSquares(S) ==
  {f \in Squares : get_piece(S.board, f) \in {Piece(S.player, K) : K \in {Rook, Bishop, Queen}}}

\* t lies in one of the directions of a piece of kind K on f.
InDirection(K, f, t) ==
  /\ f # t
  /\ \/ K \in {Rook, Queen} /\ OnLine(f, t)
     \/ K \in {Bishop, Queen} /\ OnDiagonal(f, t)

\* The squares the slider on f moves to: in one of its directions, with every
\* square before it empty, itself empty or held by an opponent piece.
SliderTargets(S, f) ==
  {t \in Squares :
     /\ InDirection(kind(get_piece(S.board, f)), f, t)
     /\ ClearBetween(S.board, f, t)
     /\ \/ get_piece(S.board, t) = None
        \/ color(get_piece(S.board, t)) = S.opponent}

\* The positions, in the sequence moves, of the moves from f.
MovesFrom(moves, f) ==
  {i \in 1..Len(moves) :
     \/ moves[i].type \in {"Standard", "PawnDoubleAdvance", "PawnEnPassant"} /\ moves[i].from = f
     \/ moves[i].type = "PawnPromotion" /\ moves[i].pawn.from = f}

SliderGeneration(S, moves) ==
  \A f \in SliderSquares(S) :
    /\ {moves[i] : i \in MovesFrom(moves, f)} = {Standard(f, t) : t \in SliderTargets(S, f)}
    /\ Cardinality(MovesFrom(moves, f)) = Cardinality(SliderTargets(S, f))

\* C20: for a rook, bishop or queen of the side to move the generator emits,
\* along each of the piece's directions, a standard move to every empty square
\* up to the first occupied square, one more onto that square if it holds an
\* opponent piece, and no move onto or beyond a friendly piece or beyond the
\* first occupied square.
C20_SliderMovesGenerated ==
  SliderGeneration(state, gen_potential_legal_moves(state))

\* C20 witness: a queen of the side to move has an opponent piece to capture
\* at the end of one ray, a friendly piece ending another and an empty square
\* behind the piece it can capture.
C20_Witness ==
  \E f \in SliderSquares(state) :
    /\ kind(get_piece(state.board, f)) = Queen
    /\ \E t \in SliderTargets(state, f) :
         /\ get_piece(state.board, t) # None
         /\ \E u \in Squares :
              /\ InDirection(Queen, f, u) /\ InDirection(Queen, t, u)
              /\ InDirection(Queen, f, t)
              /\ Max(Abs(u[1] - f[1]), Abs(u[2] - f[2])) > Max(Abs(t[1] - f[1]), Abs(t[2] - f[2]))
              /\ Sign(u[1] - f[1]) = Sign(t[1] - f[1]) /\ Sign(u[2] - f[2]) = Sign(t[2] - f[2])
              /\ get_piece(state.board, u) = None

\* The from and to squares of a move that is not a castle.
MoveFrom(mv) == IF mv.type = "PawnPromotion" THEN mv.pawn.from ELSE mv.from
MoveTo(mv) == IF mv.type = "PawnPromotion" THEN mv.pawn.to ELSE mv.to

\* The square sq holds a piece of colour c.
Holds(b, sq, c) == get_piece(b, sq) # None /\ color(get_piece(b, sq)) = c

\* The squares a knight, or a king, on f steps to when they hold no piece of
\* colour c.
KnightTargets(b, f, c) ==
  {t \in Squares : {Abs(t[1] - f[1]), Abs(t[2] - f[2])} = {1, 2} /\ ~Holds(b, t, c)}
KingTargets(b, f, c) ==
  {t \in Squares : Max(Abs(t[1] - f[1]), Abs(t[2] - f[2])) = 1 /\ ~Holds(b, t, c)}

StepTargets(b, f, c) ==
  IF kind(get_piece(b, f)) = Knight THEN KnightTargets(b, f, c) ELSE KingTargets(b, f, c)

StepGeneration(S, moves) ==
  /\ \A i \in 1..Len(moves) :
       moves[i].type # "Castling" =>
         /\ MoveFrom(moves[i]) \in Squares
         /\ Holds(S.board, MoveFrom(moves[i]), S.player)
         /\ MoveTo(moves[i]) \in Squares
         /\ ~Holds(S.board, MoveTo(moves[i]), S.player)
  /\ \A f \in Squares :
       get_piece(S.board, f) \in {Piece(S.player, Knight), Piece(S.player, King)} =>
         /\ {moves[i] : i \in MovesFrom(moves, f)}
              = {Standard(f, t) : t \in StepTargets(S.board, f, S.player)}
         /\ Cardinality(MovesFrom(moves, f)) = Cardinality(StepTargets(S.board, f, S.player))

\* C21: every move the pseudo-legal generator emits (castles aside) has its
\* from square holding a piece of the side to move and its to square on the
\* board and not holding a piece of the side to move; for a knight the emitted
\* destinations are exactly the on-board L-offset squares not holding a
\* friendly piece, for a king exactly the on-board adjacent such squares.
C21_StepMovesGenerated == StepGeneration(state, gen_potential_legal_moves(state))

\* C21 witness: a knight on an edge file, off the back ranks, and a king with a
\* square to step to.
C21_Witness ==
  /\ \E f \in Squares :
       /\ get_piece(state.board, f) = Piece(state.player, Knight)
       /\ f[2] \in {0, 7} /\ f[1] \notin {0, 7}
       /\ KnightTargets(state.board, f, state.player) # {}
  /\ \E f \in Squares :
       /\ get_piece(state.board, f) = Piece(state.player, King)
       /\ KingTargets(state.board, f, state.player) # {}

\* The squares around the board, up to two steps off it.
OffBoard == {Position(x, y) : x \in -2..9, y \in -2..9} \ Squares

\* C22: on every board, for every on-board square sq and colour by,
\* is_position_in_check(sq, by) is true if and only if some piece of colour by
\* attacks sq (a pawn diagonally forward onto sq, a knight an L-offset away, an
\* adjacent king, a bishop or queen first on a diagonal ray, a rook or queen
\* first on a rank or file ray); it is false for an off-board square.
C22_InCheckIsAttacked ==
  /\ \A sq \in Squares : \A by \in Color :
       is_position_in_check(state.board, sq, by) <=> Attacked(state.board, sq, by)
  /\ \A sq \in OffBoard : \A by \in Color : ~is_position_in_check(state.board, sq, by)

\* C22 witness: a board where the side to move is in check from a bishop and
\* a pawn of each colour attacks a square of the middle ranks.
C22_Witness ==
  /\ is_position_in_check(state.board, state.black_king_pos, White)
  /\ is_position_in_check_by_bishop_or_queen(state.board, state.black_king_pos, White)
  /\ \E sq \in Squares : sq[1] \in 2..5 /\ is_position_in_check_by_pawn(state.board, sq, White)
  /\ \E sq \in Squares : sq[1] \in 2..5 /\ is_position_in_check_by_pawn(state.board, sq, Black)

\* The squares holding the king of colour c.
KingSquares(b, c) == {sq \in Squares : get_piece(b, sq) = Piece(c, King)}

\* C23: in every state reached from State::new() through moves returned by
\* gen_legal_moves the board holds exactly one white king and exactly one
\* black king.
C23_OneKingEach ==
  /\ Cardinality(KingSquares(state.board, White)) = 1
  /\ Cardinality(KingSquares(state.board, Black)) = 1

\* C23 witness: both sides have castled.
C23_Witness ==
  /\ last.type = "Castling"
  /\ KingSquares(state.board, White) \cap {Position(0, 2), Position(0, 6)} # {}
  /\ KingSquares(state.board, Black) \cap {Position(7, 2), Position(7, 6)} # {}

\* The state n plies into the game L.
RECURSIVE Replay(_, _)
Replay(L, n) == IF n = 0 THEN StateNew ELSE make_move(Replay(L, n - 1), L[n])

\* The states n plies into the replayed games.
StatesAtPly(n) ==
  {Replay(Lines[i], n) : i \in {j \in 1..Len(Lines) : Len(Lines[j]) >= n}}

\* C24 as claimed: a legal move made on a reachable state S can be unmade, the
\* State after the move and the move giving back S (board, side to move,
\* castling rights, en-passant target, clocks), so that no other state of a
\* game, with the same legal move, leads to the same State.  State has no
\* unmake and keeps no history; violated by 4.Rg1 after 1.Nf3 Nf6 2.Rg1 Ng8
\* 3.Rh1 Nf6 and after 1.Nf3 Nf6 2.Ng1 Ng8 3.Nf3 Nf6.
C24_MakeMoveCanBeUnmade ==
  last # NoMove =>
    \A S \in StatesAtPly(state.half_moves - 1) :
      make_move(S, last) = state => (S = prev \/ last \notin legal_moves(S))

\* The squares on and around the board.
Near == Squares \cup OffBoard

\* The moves from f to t, of every kind.
MovesBetween(f, t) ==
  {Standard(f, t), PawnDoubleAdvance(f, t), PawnEnPassant(f, t),
   PawnPromotion(StandardMove(f, t), Piece(White, Queen)),
   PawnPromotion(StandardMove(f, t), Piece(Black, Queen))}

\* C25 as claimed: validate_move returns false for every move whose from square
\* or to square lies outside the 8x8 board, in every state.  Violated in
\* State::new() by the knight move b1 -> (-1, 3).
C25_OffBoardMovesRejected ==
  \A f \in Near : \A t \in Near :
    (~is_valid(f) \/ ~is_valid(t)) =>
      \A mv \in MovesBetween(f, t) : ~validate_move(state, mv)

\* C26 as claimed: in a game played from State::new() with moves from
\* gen_legal_moves, once the rook that started on a corner has moved away from
\* it or has been captured on it, no castle with that corner is generated in
\* any later state, whatever stands on the corner then.  Violated after
\* 3...Bxh1 and 9.Rh1 with the rook from a1 (C9: the capture on h1 leaves the
\* right set).
C26_NoCastleOnceRookGone ==
  \A side \in CastlingMove :
    castling_squares(side)[5] \in gone => Castling(side) \notin legal_moves(state)

\* The en-passant moves gen_legal_moves returns in S.
LegalEnPassant(S) == {mv \in legal_moves(S) : mv.type = "PawnEnPassant"}

\* C27: in every state of the legal play where en_passant is Some(t), t is
\* empty, t is on rank 3 (row 2) if White just moved and on rank 6 (row 5) if
\* Black did, and the square beyond t, one rank further from the mover's start
\* rank, holds a pawn of the side that just moved (State.opponent); every
\* en-passant move gen_legal_moves returns then removes an opponent pawn.
C27_EnPassantInvariant ==
  state.en_passant # None =>
    /\ is_valid(state.en_passant)
    /\ get_piece(state.board, state.en_passant) = None
    /\ state.en_passant[1] = (IF state.opponent = White THEN 2 ELSE 5)
    /\ get_piece(state.board, Ahead(state.en_passant, state.opponent, 1))
         = Piece(state.opponent, Pawn)
    /\ \A mv \in LegalEnPassant(state) :
         /\ get_piece(state.board, CapturedSquare(mv.from, mv.to))
              = Piece(state.opponent, Pawn)
         /\ get_piece(make_move(state, mv).board, CapturedSquare(mv.from, mv.to)) = None

\* C27 witness: Black has just advanced a pawn two squares and White has an
\* en-passant capture among its legal moves.
C27_Witness ==
  /\ state.en_passant # None
  /\ state.opponent = Black
  /\ LegalEnPassant(state) # {}

\* C28: in every state of the legal play the cached king squares agree with
\* the board: white_king_pos holds the white king and black_king_pos holds the
\* black king.
C28_KingPositionsCached ==
  /\ get_piece(state.board, state.white_king_pos) = Piece(White, King)
  /\ get_piece(state.board, state.black_king_pos) = Piece(Black, King)

\* C28 witness: the white king has just stepped off its start square, after
\* both sides' kings were cached at e1 and e8.
C28_Witness ==
  /\ last.type = "Standard" /\ last.from = e1
  /\ get_piece(prev.board, e1) = Piece(White, King)
  /\ state.white_king_pos = last.to
  /\ state.black_king_pos = e8

\* C29: in every reachable state S, validate_move accepts every move that
\* S.gen_legal_moves() returns.
C29_LegalMovesValidated == \A mv \in legal_moves(state) : validate_move(state, mv)

\* C29 witness: Black has an en-passant capture among its legal moves and
\* validate_move accepts it.
C29_Witness ==
  /\ state.player = Black
  /\ \E mv \in legal_moves(state) : mv.type = "PawnEnPassant" /\ validate_move(state, mv)

\* The pawn moves from f to t: the standard move and the promotions to a piece
\* of colour c.
PawnMovesBetween(f, t, c) ==
  {Standard(f, t)}
    \cup {PawnPromotion(StandardMove(f, t), Piece(c, k)) : k \in {Rook, Knight, Bishop, Queen}}

\* C30 as claimed: validate_move accepts a promotion move only if its
\* destination is on the mover's promotion rank, accepts a standard move of a
\* pawn only if its destination is not on that rank, and so accepts no standard
\* or promotion move of a pawn that gen_legal_moves does not return.  Violated
\* in State::new() by the promotion e2 -> e3 to a queen.
C30_PawnMovesByRank ==
  \A f \in PawnSquares(state) : \A t \in Squares :
    \A mv \in PawnMovesBetween(f, t, state.player) :
      validate_move(state, mv) =>
        /\ (mv.type = "PawnPromotion") <=> (t[1] = PromotionRank(state.player))
        /\ mv \in legal_moves(state)

\* C31: in every state reached from State::new() by n calls of make_move, with
\* any moves, player and opponent are opposite colours, player is White exactly
\* when n is even, half_moves is n and full_moves is floor(n / 2).
C31_PlyCount ==
  /\ state.player \in Color
  /\ state.opponent = opposite(state.player)
  /\ (state.player = White) <=> (calls % 2 = 0)
  /\ state.half_moves = calls
  /\ state.full_moves = calls \div 2

\* C31 witness: the second call was a castle no generator returned, and White
\* is to move again.
C31_Witness ==
  /\ calls = 2
  /\ last.type = "Castling"
  /\ state.player = White /\ state.full_moves = 1

\* The squares of rank 1 and rank 8.
EndRanks == {sq \in Squares : sq[1] \in {0, 7}}

\* C32: in every state of the legal play no pawn of either colour stands on
\* rank 1 or rank 8.
C32_NoPawnOnEndRanks ==
  \A sq \in EndRanks : \A c \in Color : get_piece(state.board, sq) # Piece(c, Pawn)

\* C32 witness: a white pawn has just reached rank 8 by a capture and stands
\* there as a piece.
C32_Witness ==
  /\ last.type = "PawnPromotion"
  /\ last.pawn.to[1] = 7 /\ last.pawn.to[2] # last.pawn.from[2]
  /\ get_piece(prev.board, last.pawn.from) = Piece(White, Pawn)
  /\ get_piece(state.board, last.pawn.to) = last.promotion

\* The Game has made a move, and the move of its latest make_move call.
GameMoved == line > 0 /\ game.half_moves > 0
GameLast == Lines[line][game.half_moves]

\* C33 as claimed: after Game::make_move of a normal move, both rights of the
\* colour of a moved king are cleared, the queen-side right of the colour of a
\* rook that left its a-file corner is cleared, and the king-side right of the
\* colour of a rook that left its h-file corner is cleared.  Violated by 2.Rg1
\* after 1.Nf3 Nf6: the from square is read after the board was changed.
C33_GameNormalMoveClearsRights ==
  (GameMoved /\ GameLast.type = "Standard") =>
    \A c \in Color :
      /\ get_piece(gprev.board, GameLast.from) = Piece(c, King)
           => BothCleared(game.castling_rights, c)
      /\ (/\ get_piece(gprev.board, GameLast.from) = Piece(c, Rook)
          /\ GameLast.from = Position(BackRankOf(c), 0))
           => ~RightOf(game.castling_rights, c, FALSE)
      /\ (/\ get_piece(gprev.board, GameLast.from) = Piece(c, Rook)
          /\ GameLast.from = Position(BackRankOf(c), 7))
           => ~RightOf(game.castling_rights, c, TRUE)

\* C34 as claimed: Game::validate_move accepts a castle of colour c to side s
\* only if the right of colour c and side s is set, the squares between c's
\* king and the rook are empty, and none of the king's start, pass-through and
\* destination squares is attacked by the colour opposite to c.  Violated after
\* 1.d4 d5 2.Bf4 Nc6 3.Qd2 Nf6 by the white queen-side castle over the knight
\* on b1.
C34_GameCastleConditions ==
  \A c \in Color :
    /\ game_validate_move(game, CastleOf(c, TRUE)) => KingSideConditions(game, c)
    /\ game_validate_move(game, CastleOf(c, FALSE)) => QueenSideConditions(game, c)

\* C35 as claimed: Game::validate_move accepts an en-passant move from f to t
\* if and only if f holds a pawn of the side to move, the game's en_passant
\* target is t, f is on a file next to t's file, and f is one rank behind t in
\* the mover's direction.  Violated after 1.a3 e5 2.a4 e4 3.d4, where the
\* capture e4xd3 is rejected.
C35_GameEnPassantAccepted ==
  \A f \in Squares : \A t \in Squares :
    game_validate_move(game, PawnEnPassant(f, t))
      <=> /\ get_piece(game.board, f) = Piece(game.turn, Pawn)
          /\ game.en_passant = t
          /\ ForwardDiagonal(f, t, game.turn)

=============================================================================
